---------------------------- MODULE Spec2Model ----------------------------
(***************************************************************************)
(* Port tariff system: the calculation engine, its six due-type            *)
(* calculators, the SQLite rate store with its re-ingestion, and the       *)
(* guardrail layer, as state machines.                                     *)
(*                                                                         *)
(* Fixed-point conventions (Python floats in the source):                  *)
(*   gross_tonnage, tier_min, tier_max : tenths of a GT                    *)
(*   days_in_port                      : hundredths of a day               *)
(*   rates, fees, minimums             : cents                             *)
(*   amounts before rounding           : 1/100 cent ("e4")                 *)
(*   DueResult / CalculationResult     : cents (after round(x, 2))         *)
(*   percentages                       : whole percent                     *)
(* The input sets keep every unrounded amount exact in 1/100 cent.         *)
(* round(x, 2) is taken on the exact decimal value, ties to even.          *)
(***************************************************************************)
EXTENDS Integers, Sequences, FiniteSets, TLC

VARIABLES
    entry,         \* the caller: "api" (calculate_dues), "demo" (run_demo),
                   \* "engine" (engine.calculate directly), "find_tier"
    query,         \* the VesselQuery of the request
    store,         \* SQLite tariff tables: rates, tiers, surcharges, reductions, minimums
    pc,            \* position of the request flow
    input_report,  \* InputValidator's ValidationReport, NoReport before it ran
    result,        \* the CalculationResult under construction / returned
    idx,           \* engine loop: index of the next requested due type
    ingest_pc,     \* position of IngestionPipeline.run
    force_reingest,\* its argument
    incoming,      \* the structured rows the extraction produced
    seen,          \* store phases observed by the reads of the running calculate()
    ft,            \* a direct call of TowageDuesCalculator._find_tier: arguments and result
    gr             \* the dict GuardrailLayer.validate_output returned, NoGuardrail before it ran

vars == <<entry, query, store, pc, input_report, result, idx,
          ingest_pc, force_reingest, incoming, seen, ft, gr>>

-----------------------------------------------------------------------------
(* Bounds of the model *)

MaxOps == 2
MaxReq == 2
MaxTiers == 2

-----------------------------------------------------------------------------
(* Python values *)

None == "<None>"          \* None where a string is expected
NoNum == <<>>              \* None where a number is expected; <<v>> is the number v
Some(v) == <<v>>
IsNone(o) == o = <<>>
Val(o) == o[1]
\* Python truthiness of an Optional[float]: None and 0.0 are falsy
Truthy(o) == o # <<>> /\ o[1] # 0

Max(a, b) == IF a >= b THEN a ELSE b

\* math.ceil(a / b) for b > 0 (TLA+ \div rounds toward minus infinity)
CeilDiv(a, b) == -((-a) \div b)

\* round(n / d) to an integer, ties to even, for d > 0
RoundDiv(n, d) ==
    LET q == n \div d
        r == n % d
    IN  IF 2 * r < d THEN q
        ELSE IF 2 * r > d THEN q + 1
        ELSE IF q % 2 = 0 THEN q ELSE q + 1

\* round(x * m / d) without forming x * m (32-bit integers), d > 0, m >= 0
MulRound(x, m, d) ==
    LET a == x \div d
        r == x % d
        q == a * m + ((r * m) \div d)
        rem == (r * m) % d
    IN  IF 2 * rem < d THEN q
        ELSE IF 2 * rem > d THEN q + 1
        ELSE IF q % 2 = 0 THEN q ELSE q + 1

\* x * p / 100 without forming x * p; exact on the model's inputs
Pct(x, p) == (x \div 100) * p + (((x % 100) * p) \div 100)

\* round(x, 2) of an unrounded amount (1/100 cent) -> cents
Round2(x) == RoundDiv(x, 100)

Range(s) == {s[i] : i \in DOMAIN s}

RECURSIVE SelectSeqIdx(_, _)
\* the subsequence of s at the (ascending) indices in I
SelectSeqIdx(s, I) ==
    IF s = <<>> THEN <<>>
    ELSE LET n == Len(s)
             front == SelectSeqIdx(SubSeq(s, 1, n - 1), I)
         IN  IF n \in I THEN Append(front, s[n]) ELSE front

-----------------------------------------------------------------------------
(* Strings: str.lower() and the substring test `a in b`, tabulated over the *)
(* strings the model uses                                                   *)

RecognisedPorts ==
    {"durban", "cape town", "richards bay", "port elizabeth",
     "ngqura", "east london", "saldanha", "mossel bay"}

Lower(s) ==
    CASE s = "Durban"         -> "durban"
      [] s = "DURBAN"         -> "durban"
      [] s = "Cape Town"      -> "cape town"
      [] s = "Richards Bay"   -> "richards bay"
      [] s = "Port Elizabeth" -> "port elizabeth"
      [] s = "Ngqura"         -> "ngqura"
      [] s = "East London"    -> "east london"
      [] s = "Saldanha"       -> "saldanha"
      [] s = "Mossel Bay"     -> "mossel bay"
      [] s = "Walvis Bay"     -> "walvis bay"
      [] s = "ALL"            -> "all"
      [] s = "SUDESTADA"      -> "sudestada"
      [] s = "SAPS VESSEL"    -> "saps vessel"
      [] s = "MLT - Malta"    -> "mlt - malta"
      [] s = "SA Navy"        -> "sa navy"
      [] s = "ZAF"            -> "zaf"
      [] s = "Bulk Carrier"   -> "bulk carrier"
      [] s = "Pleasure"       -> "pleasure"
      [] s = "Coaster reduction"     -> "coaster reduction"
      [] s = "Short stay"            -> "short stay"
      [] s = "Double hull tanker"    -> "double hull tanker"
      [] s = "Outside working hours" -> "outside working hours"
      [] s = "OWH"                   -> "owh"
      [] OTHER -> s

\* the proper, non-empty substrings among the model's lower-case strings
ProperSubstrings ==
    {<<"saps", "saps vessel">>, <<"navy", "sa navy">>,
     <<"coaster", "coaster reduction">>, <<"short", "short stay">>,
     <<"double", "double hull tanker">>,
     <<"working", "outside working hours">>,
     <<"working", "outside_working_hours">>}

\* Python's `a in b` for strings
In(a, b) == a = "" \/ a = b \/ <<a, b>> \in ProperSubstrings

-----------------------------------------------------------------------------
(* knowledge_base/sqlite_store.py: the read side.  A table is the sequence  *)
(* of its rows in rowid order.                                              *)

MinOf(S) == CHOOSE x \in S : \A y \in S : x <= y

\* ORDER BY CASE WHEN port = ? THEN 0 ELSE 1 END
PortRank(row, port) == IF row.port = port THEN 0 ELSE 1

\* SELECT rate FROM rates WHERE due_type = ? AND unit = ?
\*   AND (port = ? OR port = 'ALL') ORDER BY <port rank> LIMIT 1
get_rate(st, due_type, port, unit) ==
    LET M(r) == r.due_type = due_type /\ r.unit = unit
                /\ (r.port = port \/ r.port = "ALL")
        E(r) == M(r) /\ r.port = port
        exact == {i \in DOMAIN st.rates : E(st.rates[i])}
        any == {i \in DOMAIN st.rates : M(st.rates[i])}
    IN  IF exact # {} THEN Some(st.rates[MinOf(exact)].rate)
        ELSE IF any # {} THEN Some(st.rates[MinOf(any)].rate)
        ELSE NoNum

\* SELECT amount FROM minimums WHERE due_type = ?
\*   AND (port = ? OR port = 'ALL') ORDER BY <port rank> LIMIT 1
get_minimum(st, due_type, port) ==
    LET M(r) == r.due_type = due_type /\ (r.port = port \/ r.port = "ALL")
        E(r) == M(r) /\ r.port = port
        exact == {i \in DOMAIN st.minimums : E(st.minimums[i])}
        any == {i \in DOMAIN st.minimums : M(st.minimums[i])}
    IN  IF exact # {} THEN Some(st.minimums[MinOf(exact)].amount)
        ELSE IF any # {} THEN Some(st.minimums[MinOf(any)].amount)
        ELSE NoNum

RECURSIVE InsertTier(_, _, _)
\* insert row into the sorted sequence s, after every row not greater than it
InsertTier(s, row, port) ==
    IF s = <<>> THEN <<row>>
    ELSE LET h == Head(s)
             before == \/ PortRank(row, port) < PortRank(h, port)
                       \/ /\ PortRank(row, port) = PortRank(h, port)
                          /\ row.gt_min < h.gt_min
         IN  IF before THEN <<row>> \o s
             ELSE <<h>> \o InsertTier(Tail(s), row, port)

RECURSIVE SortTiers(_, _)
SortTiers(s, port) ==
    IF s = <<>> THEN <<>>
    ELSE InsertTier(SortTiers(SubSeq(s, 1, Len(s) - 1), port), s[Len(s)], port)

\* SELECT * FROM tiers WHERE due_type = ? AND (port = ? OR port = 'ALL')
\*   ORDER BY <port rank>, gt_min
get_tiers(st, due_type, port) ==
    LET M(r) == r.due_type = due_type /\ (r.port = port \/ r.port = "ALL")
    IN  SortTiers(SelectSeqIdx(st.tiers, {i \in DOMAIN st.tiers : M(st.tiers[i])}), port)

\* SELECT * FROM surcharges WHERE due_type = ? OR due_type = 'ALL'
get_surcharges(st, due_type) ==
    LET M(r) == r.due_type = due_type \/ r.due_type = "ALL"
    IN  SelectSeqIdx(st.surcharges, {i \in DOMAIN st.surcharges : M(st.surcharges[i])})

\* SELECT * FROM reductions WHERE due_type = ? OR due_type = 'ALL'
get_reductions(st, due_type) ==
    LET M(r) == r.due_type = due_type \/ r.due_type = "ALL"
    IN  SelectSeqIdx(st.reductions, {i \in DOMAIN st.reductions : M(st.reductions[i])})

\* SQLiteStore.count(): rows over the five tariff tables
count(st) ==
    Len(st.rates) + Len(st.tiers) + Len(st.surcharges)
        + Len(st.reductions) + Len(st.minimums)

\* JSONStore.get_vat_rate(): settings.vat_rate, in percent
VatRatePct == 15
get_vat_rate == VatRatePct

-----------------------------------------------------------------------------
(* calculation_engine/calculators.py: DueResult and the shared base *)

DueTypes ==
    {"light_dues", "vts_dues", "port_dues", "towage_dues",
     "pilotage_dues", "running_lines_dues"}

\* confidence, in percent
ConfFull == 100
ConfDegraded == 30

\* _finalise without the clamp at zero
_finalise_NoClamp(due_type, base, surcharges, reductions, breakdown, formula, confidence, warnings, rate_source) ==
    LET vat_rate == get_vat_rate
        net == base + surcharges - reductions
    IN  [due_type         |-> due_type,
         base_amount      |-> Round2(base),
         surcharge_amount |-> Round2(surcharges),
         reduction_amount |-> Round2(reductions),
         net_amount       |-> Round2(net),
         vat_amount       |-> MulRound(net, vat_rate, 10000),
         total_with_vat   |-> MulRound(net, 100 + vat_rate, 10000),
         breakdown        |-> breakdown,
         formula_applied  |-> formula,
         confidence       |-> confidence,
         warnings         |-> warnings,
         exempted         |-> FALSE,
         exemption_reason |-> "",
         rate_source      |-> rate_source]

\* _Base._finalise
_finalise(due_type, base, surcharges, reductions, breakdown, formula, confidence, warnings, rate_source) ==
    LET vat_rate == get_vat_rate
        net == Max(0, base + surcharges - reductions)
    IN  [due_type         |-> due_type,
         base_amount      |-> Round2(base),
         surcharge_amount |-> Round2(surcharges),
         reduction_amount |-> Round2(reductions),
         net_amount       |-> Round2(net),
         vat_amount       |-> MulRound(net, vat_rate, 10000),
         total_with_vat   |-> MulRound(net, 100 + vat_rate, 10000),
         breakdown        |-> breakdown,
         formula_applied  |-> formula,
         confidence       |-> confidence,
         warnings         |-> warnings,
         exempted         |-> FALSE,
         exemption_reason |-> "",
         rate_source      |-> rate_source]

\* _Base._units_of_100gt: math.ceil(gt / 100)
_units_of_100gt(gt) == CeilDiv(gt, 1000)

\* an exemption that still charges a flat amount
_exempt_result_FlatCharge(due_type, reason) ==
    [due_type         |-> due_type,
     base_amount      |-> 100,
     surcharge_amount |-> 0,
     reduction_amount |-> 0,
     net_amount       |-> 100,
     vat_amount       |-> 0,
     total_with_vat   |-> 100,
     breakdown        |-> <<>>,
     formula_applied  |-> "Exempt",
     confidence       |-> ConfFull,
     warnings         |-> <<>>,
     exempted         |-> TRUE,
     exemption_reason |-> reason,
     rate_source      |-> "hardcoded"]

\* _Base._exempt_result
_exempt_result(due_type, reason) ==
    [due_type         |-> due_type,
     base_amount      |-> 0,
     surcharge_amount |-> 0,
     reduction_amount |-> 0,
     net_amount       |-> 0,
     vat_amount       |-> 0,
     total_with_vat   |-> 0,
     breakdown        |-> <<>>,
     formula_applied  |-> "Exempt",
     confidence       |-> ConfFull,
     warnings         |-> <<>>,
     exempted         |-> TRUE,
     exemption_reason |-> reason,
     rate_source      |-> "hardcoded"]

exempt_kw == {"saps", "sandf", "police", "defence", "defense", "navy", "samsa"}

\* (query.vessel_flag or "").lower()
LowerOrEmpty(s) == IF s = None THEN "" ELSE Lower(s)

\* any(k in flag or k in name for k in exempt_kw)
HasExemptKeyword(q) ==
    \E k \in exempt_kw :
        In(k, LowerOrEmpty(q.vessel_flag)) \/ In(k, LowerOrEmpty(q.vessel_name))

\* _Base._is_exempt: raised = AttributeError of None.lower()
_is_exempt(q, due_type) ==
    IF HasExemptKeyword(q)
    THEN [raised |-> FALSE, exempt |-> TRUE,
          reason |-> "Government/SAPS/SANDF vessel"]
    ELSE IF q.vessel_type = None
    THEN [raised |-> TRUE, exempt |-> FALSE, reason |-> ""]
    ELSE IF Lower(q.vessel_type) = "pleasure"
            /\ due_type \in {"light_dues", "port_dues"}
    THEN [raised |-> FALSE, exempt |-> TRUE,
          reason |-> "Pleasure vessel at registered port"]
    ELSE [raised |-> FALSE, exempt |-> FALSE, reason |-> ""]

\* _Base._owh_surcharge: base * (pct / 100)
_owh_surcharge(base, pct) == Pct(base, pct)

\* what a calculator call yields: a DueResult, or an exception
Returned(dr) == [raised |-> FALSE, dr |-> dr]
Raised(what) == [raised |-> TRUE, exc |-> what]

\* the arguments a calculator hands to _finalise
FinArgs(base, surcharges, reductions, breakdown, formula, confidence, warnings, rate_source) ==
    [base |-> base, surcharges |-> surcharges, reductions |-> reductions,
     breakdown |-> breakdown, formula |-> formula, confidence |-> confidence,
     warnings |-> warnings, rate_source |-> rate_source]

Finalise(due_type, a) ==
    _finalise(due_type, a.base, a.surcharges, a.reductions, a.breakdown,
              a.formula, a.confidence, a.warnings, a.rate_source)

Line(item, amount) == [item |-> item, amount |-> amount]

\* the shared preamble of five calculators, then the calculator's body
WithExemption(q, due_type, args) ==
    LET e == _is_exempt(q, due_type)
    IN  IF e.raised THEN Raised("'NoneType' object has no attribute 'lower'")
        ELSE IF e.exempt THEN Returned(_exempt_result(due_type, e.reason))
        ELSE Returned(Finalise(due_type, args))

-----------------------------------------------------------------------------
(* 1. Light dues *)

LightFallbackRate == 11708

LightArgs(q, st) ==
    LET gt == q.gross_tonnage
        units == _units_of_100gt(gt)
        r100 == get_rate(st, "light_dues", q.port, "per_100gt")
        rgt == get_rate(st, "light_dues", q.port, "per_gt")
        rate == IF Truthy(r100) THEN Val(r100)
                ELSE IF Truthy(rgt) THEN Val(rgt) * 100
                ELSE LightFallbackRate
        source == IF Truthy(r100) \/ Truthy(rgt) THEN "sqlite" ELSE "hardcoded"
        raw == units * rate * 100
        minimum == get_minimum(st, "light_dues", q.port)
        base == IF Truthy(minimum) /\ raw < Val(minimum) * 100
                THEN Val(minimum) * 100 ELSE raw
    IN  FinArgs(base, 0, 0, <<Line("light", base)>>, "light", ConfFull, <<>>, source)

LightDuesCalculator(q, st) == WithExemption(q, "light_dues", LightArgs(q, st))

-----------------------------------------------------------------------------
(* 2. VTS dues *)

VtsRateHigh == 65
VtsRateStd == 54
VtsMinimum == 23552
VtsHighPorts == {"durban", "richards bay", "saldanha"}

\* a calculator that charges GT x rate even below the minimum
VTSArgs_NoMinimum(q, st) ==
    LET port_l == Lower(q.port)
        gt == q.gross_tonnage
        srate == get_rate(st, "vts_dues", q.port, "per_gt")
        rate == IF Truthy(srate) THEN Val(srate)
                ELSE IF \E p \in VtsHighPorts : In(p, port_l)
                     THEN VtsRateHigh ELSE VtsRateStd
        source == IF Truthy(srate) THEN "sqlite" ELSE "hardcoded"
        smin == get_minimum(st, "vts_dues", q.port)
        minimum == IF Truthy(smin) THEN Val(smin) ELSE VtsMinimum
        raw == gt * rate * 10
        base == raw
        bd == IF raw < minimum * 100
              THEN <<Line("vts_minimum", base)>> ELSE <<Line("vts", base)>>
    IN  FinArgs(base, 0, 0, bd, "vts", ConfFull, <<>>, source)

VTSArgs(q, st) ==
    LET port_l == Lower(q.port)
        gt == q.gross_tonnage
        srate == get_rate(st, "vts_dues", q.port, "per_gt")
        rate == IF Truthy(srate) THEN Val(srate)
                ELSE IF \E p \in VtsHighPorts : In(p, port_l)
                     THEN VtsRateHigh ELSE VtsRateStd
        source == IF Truthy(srate) THEN "sqlite" ELSE "hardcoded"
        smin == get_minimum(st, "vts_dues", q.port)
        minimum == IF Truthy(smin) THEN Val(smin) ELSE VtsMinimum
        raw == gt * rate * 10
        base == Max(raw, minimum * 100)
        bd == IF raw < minimum * 100
              THEN <<Line("vts_minimum", base)>> ELSE <<Line("vts", base)>>
    IN  FinArgs(base, 0, 0, bd, "vts", ConfFull, <<>>, source)

VTSDuesCalculator(q, st) == WithExemption(q, "vts_dues", VTSArgs(q, st))

-----------------------------------------------------------------------------
(* 3. Port dues *)

PortBasePer100GT == 19273
PortIncrPer100GTDay == 5779
RedCoaster == 35
RedShortStay == 15
RedDoubleHull == 10
IdleSurchargePct == 20

\* reductions in which the coaster percentage is lost
PortReductionPcts_NoCoaster(rows, acc) == [acc EXCEPT !.coaster = 0]

RECURSIVE PortReductionPcts(_, _)
\* the loop over sqlite.get_reductions: a later row overrides an earlier one
PortReductionPcts(rows, acc) ==
    IF rows = <<>> THEN acc
    ELSE LET r == Head(rows)
             name == LowerOrEmpty(r.name)
             pct == r.pct
             next == IF In("coaster", name) /\ pct # 0
                         THEN [acc EXCEPT !.coaster = pct]
                     ELSE IF In("short", name) /\ pct # 0
                         THEN [acc EXCEPT !.short_stay = pct]
                     ELSE IF In("double", name) /\ pct # 0
                         THEN [acc EXCEPT !.double_hull = pct]
                     ELSE acc
         IN  PortReductionPcts(Tail(rows), next)

PortArgs(q, st) ==
    LET gt == q.gross_tonnage
        units == _units_of_100gt(gt)
        sbase == get_rate(st, "port_dues", q.port, "per_100gt")
        sincr == get_rate(st, "port_dues", q.port, "per_100gt_per_day")
        base_rate == IF Truthy(sbase) THEN Val(sbase) ELSE PortBasePer100GT
        incr_rate == IF Truthy(sbase) /\ Truthy(sincr)
                     THEN Val(sincr) ELSE PortIncrPer100GTDay
        source == IF Truthy(sbase) THEN "sqlite" ELSE "hardcoded"
        red == PortReductionPcts(get_reductions(st, "port_dues"),
                   [coaster |-> RedCoaster, short_stay |-> RedShortStay,
                    double_hull |-> RedDoubleHull])
        basic == units * base_rate * 100
        incr == units * incr_rate * q.days_in_port
        base == basic + incr
        r1 == IF q.is_coaster THEN Pct(base, red.coaster) ELSE 0
        r2 == IF q.days_in_port < 50 THEN Pct(base, red.short_stay) ELSE 0
        r3 == IF q.is_double_hull_tanker THEN Pct(base, red.double_hull) ELSE 0
        total_red == r1 + r2 + r3
        idle == q.days_in_port > 3000 /\ q.activity = ""
        surcharge == IF idle THEN Pct(incr, IdleSurchargePct) ELSE 0
        bd == <<Line("basic", basic), Line("incremental", incr)>>
              \o (IF q.is_coaster THEN <<Line("reduction_coaster", -r1)>> ELSE <<>>)
              \o (IF q.days_in_port < 50 THEN <<Line("reduction_short_stay", -r2)>> ELSE <<>>)
              \o (IF q.is_double_hull_tanker THEN <<Line("reduction_double_hull", -r3)>> ELSE <<>>)
              \o (IF idle THEN <<Line("surcharge_idle", surcharge)>> ELSE <<>>)
    IN  FinArgs(base, surcharge, total_red, bd, "port", ConfFull, <<>>, source)

PortDuesCalculator(q, st) == WithExemption(q, "port_dues", PortArgs(q, st))

-----------------------------------------------------------------------------
(* 4. Towage dues *)

\* a tier in the hardcoded format; GT bounds given in whole GT
T(lo, hi, fee, rate) == [tier_min |-> lo * 10, tier_max |-> Some(hi * 10), base_fee |-> fee, rate_per_unit |-> rate]
TOpen(lo, fee, rate) == [tier_min |-> lo * 10, tier_max |-> NoNum, base_fee |-> fee, rate_per_unit |-> rate]

\* TowageDuesCalculator._TIERS, in dict order
TowageTierKeys ==
    <<"durban", "richards bay", "east london", "port elizabeth",
      "ngqura", "mossel bay", "cape town", "saldanha">>

TowageTiers(key) ==
    CASE key = "durban" ->
           <<T(0, 2000, 814000, 0), T(2001, 10000, 1263399, 26899),
             T(10001, 50000, 3849451, 8495), T(50001, 100000, 7311807, 3224),
             TOpen(100001, 9354813, 2365)>>
      [] key = "richards bay" ->
           <<T(0, 2000, 700167, 0), T(2001, 10000, 1302067, 27532),
             T(10001, 50000, 3999988, 10108), T(50001, 100000, 7999976, 3011),
             TOpen(100001, 10399970, 2150)>>
      [] key = "east london" ->
           <<T(0, 2000, 562216, 0), T(2001, 10000, 815214, 20097),
             T(10001, 50000, 2795691, 6667), T(50001, 100000, 5591382, 2580),
             TOpen(100001, 7268297, 2580)>>
      [] key \in {"port elizabeth", "ngqura"} ->
           <<T(0, 2000, 720698, 0), T(2001, 10000, 1116845, 23753),
             T(10001, 50000, 3225798, 7310), T(50001, 100000, 6451595, 2150),
             TOpen(100001, 8254246, 2150)>>
      [] key = "mossel bay" ->
           <<T(0, 2000, 631653, 0), T(2001, 10000, 815214, 17337),
             T(10001, 50000, 2580637, 6021), TOpen(50001, 4995921, 2365)>>
      [] key = "cape town" ->
           <<T(0, 2000, 541147, 0), T(2001, 10000, 789857, 19463),
             T(10001, 50000, 2774185, 6452), T(50001, 100000, 5397833, 4732),
             TOpen(100001, 7956967, 3871)>>
      [] key = "saldanha" ->
           <<T(0, 2000, 903842, 0), T(2001, 10000, 1537878, 32743),
             T(10001, 50000, 4731170, 10323), T(50001, 100000, 9032233, 2797),
             TOpen(100001, 11182763, 4732)>>

\* the first key of a hardcoded per-port table with `key in port_l or port_l in key`
FirstKey(keys, port_l) ==
    LET hits == {i \in DOMAIN keys : In(keys[i], port_l) \/ In(port_l, keys[i])}
    IN  IF hits = {} THEN NoNum ELSE Some(keys[MinOf(hits)])

RECURSIVE MapTiers(_)
\* the normalisation of SQLite rows to the hardcoded format
MapTiers(rows) ==
    IF rows = <<>> THEN <<>>
    ELSE <<[tier_min |-> Head(rows).gt_min, tier_max |-> Head(rows).gt_max,
            base_fee |-> Head(rows).base_fee,
            rate_per_unit |-> Head(rows).rate_per_unit]>> \o MapTiers(Tail(rows))

\* TowageDuesCalculator._get_tiers
Towage_get_tiers(st, port_l) ==
    LET sqlite_tiers == get_tiers(st, "towage_dues", port_l)
        key == FirstKey(TowageTierKeys, port_l)
    IN  IF sqlite_tiers # <<>>
        THEN [tiers |-> MapTiers(sqlite_tiers), source |-> "sqlite"]
        ELSE IF ~IsNone(key)
        THEN [tiers |-> TowageTiers(Val(key)), source |-> "hardcoded"]
        ELSE [tiers |-> TowageTiers("durban"), source |-> "hardcoded"]

RECURSIVE InsertByMin(_, _)
InsertByMin(s, t) ==
    IF s = <<>> THEN <<t>>
    ELSE IF t.tier_min < Head(s).tier_min THEN <<t>> \o s
    ELSE <<Head(s)>> \o InsertByMin(Tail(s), t)

RECURSIVE SortByMin(_)
\* sorted(tiers, key=lambda t: t.get("tier_min") or 0): stable
SortByMin(s) ==
    IF s = <<>> THEN <<>>
    ELSE InsertByMin(SortByMin(SubSeq(s, 1, Len(s) - 1)), s[Len(s)])

\* the loop's test: gt >= lo and (hi is None or gt <= hi)
TierContains(tier, gt) ==
    gt >= tier.tier_min /\ (IsNone(tier.tier_max) \/ gt <= Val(tier.tier_max))

\* _find_tier scanning the list in the order given, without sorting
_find_tier_Unsorted(gt, tiers) ==
    LET hits == {i \in DOMAIN tiers : TierContains(tiers[i], gt)}
    IN  IF hits # {} THEN <<tiers[MinOf(hits)]>>
        ELSE IF tiers # <<>> THEN <<tiers[Len(tiers)]>>
        ELSE <<>>

\* TowageDuesCalculator._find_tier; <<>> is None, <<tier>> the tier
_find_tier(gt, tiers) ==
    LET sorted == SortByMin(tiers)
        hits == {i \in DOMAIN sorted : TierContains(sorted[i], gt)}
    IN  IF hits # {} THEN <<sorted[MinOf(hits)]>>
        ELSE IF tiers # <<>> THEN <<tiers[Len(tiers)]>>
        ELSE <<>>

TowageOwhDefault == 25

\* the loop over sqlite.get_surcharges; float(sc.get("pct") or default)
\* a lookup that never reads the store's percentage
OwhPct_DefaultOnly(rows, words, default) == default

OwhPct(rows, words, default) ==
    LET hits == {i \in DOMAIN rows :
                    \E w \in words : In(w, LowerOrEmpty(rows[i].name))}
    IN  IF hits = {} THEN default
        ELSE IF rows[MinOf(hits)].pct = 0 THEN default
        ELSE rows[MinOf(hits)].pct

\* a calculator that counts the increment from 0 GT instead of from the tier's lower bound
TowageArgs_IgnoresTierMin(q, st) ==
    LET gt == q.gross_tonnage
        port_l == Lower(q.port)
        num_ops == Max(q.num_tug_operations, 1)
        got == Towage_get_tiers(st, port_l)
        found == _find_tier(gt, got.tiers)
    IN  IF found = <<>>
        THEN FinArgs(0, 0, 0, <<>>, "No tier found", ConfDegraded,
                     <<"No towage tier found for this GT/port">>, "hardcoded")
        ELSE
        LET tier == found[1]
            above == Max(0, gt)
            incr == CeilDiv(above, 1000) * tier.rate_per_unit
            per_service == tier.base_fee + incr
            total_base == per_service * num_ops * 100
            owh_pct == OwhPct(get_surcharges(st, "towage_dues"),
                              {"working", "owh"}, TowageOwhDefault)
            surcharge == IF q.outside_working_hours
                         THEN _owh_surcharge(total_base, owh_pct) ELSE 0
            bd == <<Line("tier_base", tier.base_fee * 100)>>
                  \o (IF incr > 0 THEN <<Line("tier_incremental", incr * 100)>> ELSE <<>>)
                  \o (IF num_ops > 1 THEN <<Line("operations", total_base)>> ELSE <<>>)
                  \o (IF q.outside_working_hours
                      THEN <<Line("surcharge_owh", surcharge)>> ELSE <<>>)
        IN  FinArgs(total_base, surcharge, 0, bd, "towage", ConfFull, <<>>, got.source)

TowageArgs(q, st) ==
    LET gt == q.gross_tonnage
        port_l == Lower(q.port)
        num_ops == Max(q.num_tug_operations, 1)
        got == Towage_get_tiers(st, port_l)
        found == _find_tier(gt, got.tiers)
    IN  IF found = <<>>
        THEN FinArgs(0, 0, 0, <<>>, "No tier found", ConfDegraded,
                     <<"No towage tier found for this GT/port">>, "hardcoded")
        ELSE
        LET tier == found[1]
            above == Max(0, gt - tier.tier_min)
            incr == CeilDiv(above, 1000) * tier.rate_per_unit
            per_service == tier.base_fee + incr
            total_base == per_service * num_ops * 100
            owh_pct == OwhPct(get_surcharges(st, "towage_dues"),
                              {"working", "owh"}, TowageOwhDefault)
            surcharge == IF q.outside_working_hours
                         THEN _owh_surcharge(total_base, owh_pct) ELSE 0
            bd == <<Line("tier_base", tier.base_fee * 100)>>
                  \o (IF incr > 0 THEN <<Line("tier_incremental", incr * 100)>> ELSE <<>>)
                  \o (IF num_ops > 1 THEN <<Line("operations", total_base)>> ELSE <<>>)
                  \o (IF q.outside_working_hours
                      THEN <<Line("surcharge_owh", surcharge)>> ELSE <<>>)
        IN  FinArgs(total_base, surcharge, 0, bd, "towage", ConfFull, <<>>, got.source)

TowageDuesCalculator(q, st) == WithExemption(q, "towage_dues", TowageArgs(q, st))

-----------------------------------------------------------------------------
(* 5. Pilotage dues, 6. Running-lines dues *)

R(basic, per_100gt) == [basic |-> basic, per_100gt |-> per_100gt]

PilotageRateKeys ==
    <<"durban", "richards bay", "port elizabeth", "ngqura",
      "cape town", "saldanha", "east london", "mossel bay">>

PilotageRates(key) ==
    CASE key = "durban"         -> R(1860861, 972)
      [] key = "richards bay"   -> R(3096046, 1093)
      [] key = "port elizabeth" -> R(897000, 1433)
      [] key = "ngqura"         -> R(897000, 1433)
      [] key = "cape town"      -> R(634239, 1020)
      [] key = "saldanha"       -> R(967357, 1366)
      [] key = "east london"    -> R(654745, 1049)
      [] key = "mossel bay"     -> R(654745, 1049)

PilotageDefault == R(654745, 1049)

RunningLinesRateKeys ==
    <<"richards bay", "port elizabeth", "ngqura", "cape town", "saldanha">>

RunningLinesRates(key) ==
    CASE key = "richards bay"   -> R(317589, 1346)
      [] key = "port elizabeth" -> R(383862, 1872)
      [] key = "ngqura"         -> R(383862, 1872)
      [] key = "cape town"      -> R(305233, 1492)
      [] key = "saldanha"       -> R(400634, 1697)

RunningLinesDefault == R(280191, 1368)

\* PilotageDuesCalculator._get_rate
Pilotage_get_rate(st, port_l) ==
    LET sqlite_tiers == get_tiers(st, "pilotage_dues", port_l)
        key == FirstKey(PilotageRateKeys, port_l)
    IN  IF sqlite_tiers # <<>>
        THEN [rate |-> R(sqlite_tiers[1].base_fee, sqlite_tiers[1].rate_per_unit),
              source |-> "sqlite"]
        ELSE IF ~IsNone(key)
        THEN [rate |-> PilotageRates(Val(key)), source |-> "hardcoded"]
        ELSE [rate |-> PilotageDefault, source |-> "hardcoded"]

\* a lookup without the default for ports missing from the hardcoded table
RunningLines_get_rate_NoDefault(st, port_l) ==
    LET sqlite_tiers == get_tiers(st, "running_lines_dues", port_l)
        key == FirstKey(RunningLinesRateKeys, port_l)
    IN  IF sqlite_tiers # <<>>
        THEN [rate |-> R(sqlite_tiers[1].base_fee, sqlite_tiers[1].rate_per_unit),
              source |-> "sqlite"]
        ELSE IF ~IsNone(key)
        THEN [rate |-> RunningLinesRates(Val(key)), source |-> "hardcoded"]
        ELSE [rate |-> R(0, 0), source |-> "none"]

\* RunningLinesDuesCalculator._get_rate
RunningLines_get_rate(st, port_l) ==
    LET sqlite_tiers == get_tiers(st, "running_lines_dues", port_l)
        key == FirstKey(RunningLinesRateKeys, port_l)
    IN  IF sqlite_tiers # <<>>
        THEN [rate |-> R(sqlite_tiers[1].base_fee, sqlite_tiers[1].rate_per_unit),
              source |-> "sqlite"]
        ELSE IF ~IsNone(key)
        THEN [rate |-> RunningLinesRates(Val(key)), source |-> "hardcoded"]
        ELSE [rate |-> RunningLinesDefault, source |-> "hardcoded"]

PerServiceOwhDefault == 50
MinInOut == 2

\* the per-service computation charging one operation at least, as towage does
PerServiceArgs_AtLeastOneOp(q, st, due_type, got) ==
    LET gt == q.gross_tonnage
        units == _units_of_100gt(gt)
        num_ops == Max(q.num_tug_operations, 1)
        basic == got.rate.basic
        per_100gt == got.rate.per_100gt
        per_service == basic + units * per_100gt
        total_base == per_service * num_ops * 100
        owh_pct == OwhPct(get_surcharges(st, due_type), {"working"},
                          PerServiceOwhDefault)
        surcharge == IF q.outside_working_hours
                     THEN _owh_surcharge(total_base, owh_pct) ELSE 0
        bd == <<Line("basic", basic * 100), Line("per_100gt", units * per_100gt * 100)>>
              \o (IF num_ops > 1 THEN <<Line("operations", total_base)>> ELSE <<>>)
              \o (IF q.outside_working_hours
                  THEN <<Line("surcharge_owh", surcharge)>> ELSE <<>>)
    IN  FinArgs(total_base, surcharge, 0, bd, "per_service", ConfFull, <<>>, got.source)

\* the common body of the pilotage and running-lines calculators
PerServiceArgs(q, st, due_type, got) ==
    LET gt == q.gross_tonnage
        units == _units_of_100gt(gt)
        num_ops == Max(q.num_tug_operations, MinInOut)
        basic == got.rate.basic
        per_100gt == got.rate.per_100gt
        per_service == basic + units * per_100gt
        total_base == per_service * num_ops * 100
        owh_pct == OwhPct(get_surcharges(st, due_type), {"working"},
                          PerServiceOwhDefault)
        surcharge == IF q.outside_working_hours
                     THEN _owh_surcharge(total_base, owh_pct) ELSE 0
        bd == <<Line("basic", basic * 100), Line("per_100gt", units * per_100gt * 100)>>
              \o (IF num_ops > 1 THEN <<Line("operations", total_base)>> ELSE <<>>)
              \o (IF q.outside_working_hours
                  THEN <<Line("surcharge_owh", surcharge)>> ELSE <<>>)
    IN  FinArgs(total_base, surcharge, 0, bd, "per_service", ConfFull, <<>>, got.source)

PilotageArgs(q, st) ==
    PerServiceArgs(q, st, "pilotage_dues", Pilotage_get_rate(st, Lower(q.port)))

RunningLinesArgs(q, st) ==
    PerServiceArgs(q, st, "running_lines_dues", RunningLines_get_rate(st, Lower(q.port)))

PilotageDuesCalculator(q, st) ==
    WithExemption(q, "pilotage_dues", PilotageArgs(q, st))

\* a running-lines calculator that starts with the exemption check of the others
RunningLinesDuesCalculator_ChecksExemption(q, st) ==
    WithExemption(q, "running_lines_dues", RunningLinesArgs(q, st))

\* no exemption check
RunningLinesDuesCalculator(q, st) ==
    Returned(Finalise("running_lines_dues", RunningLinesArgs(q, st)))

\* the arguments of _finalise, per calculator
ArgsOf(due_type, q, st) ==
    CASE due_type = "light_dues"         -> LightArgs(q, st)
      [] due_type = "vts_dues"           -> VTSArgs(q, st)
      [] due_type = "port_dues"          -> PortArgs(q, st)
      [] due_type = "towage_dues"        -> TowageArgs(q, st)
      [] due_type = "pilotage_dues"      -> PilotageArgs(q, st)
      [] due_type = "running_lines_dues" -> RunningLinesArgs(q, st)

\* calculator.calculate(query), by registered due type
Calculate(due_type, q, st) ==
    CASE due_type = "light_dues"         -> LightDuesCalculator(q, st)
      [] due_type = "vts_dues"           -> VTSDuesCalculator(q, st)
      [] due_type = "port_dues"          -> PortDuesCalculator(q, st)
      [] due_type = "towage_dues"        -> TowageDuesCalculator(q, st)
      [] due_type = "pilotage_dues"      -> PilotageDuesCalculator(q, st)
      [] due_type = "running_lines_dues" -> RunningLinesDuesCalculator(q, st)

-----------------------------------------------------------------------------
(* calculation_engine/engine.py *)

EmptyDues == [d \in {} |-> 0]

\* CalculationResult(vessel_name=..., port=..., gross_tonnage=..., days_in_port=...)
NewResult(q) ==
    [vessel_name          |-> q.vessel_name,
     port                 |-> q.port,
     gross_tonnage        |-> q.gross_tonnage,
     days_in_port         |-> q.days_in_port,
     dues                 |-> EmptyDues,
     dues_order           |-> <<>>,
     grand_total_excl_vat |-> 0,
     grand_total_vat      |-> 0,
     grand_total_incl_vat |-> 0,
     warnings             |-> <<>>,
     calculation_metadata |-> [vat_rate |-> 0, calculators_run |-> <<>>, exempted |-> <<>>]]

\* result.dues[due_type] = dr; a dict keeps the place of a key's first insertion
PutDue(res, due_type, dr) ==
    [res EXCEPT
        !.dues = [d \in DOMAIN res.dues \cup {due_type} |->
                     IF d = due_type THEN dr ELSE res.dues[d]],
        !.dues_order = IF due_type \in DOMAIN res.dues
                       THEN res.dues_order ELSE Append(res.dues_order, due_type)]

WarnNoCalculator(due_type) == [warning |-> "No calculator registered", due_type |-> due_type]
WarnFailed(due_type, exc) == [warning |-> "Calculator failed", due_type |-> due_type, exc |-> exc]

\* a loop body without the isolation: a failing due type discards the dues so far
EngineLoopBody_FailFast(res, due_type, q, st) ==
    IF due_type \notin DueTypes
    THEN [res EXCEPT !.warnings = Append(@, WarnNoCalculator(due_type)),
                     !.dues = EmptyDues, !.dues_order = <<>>]
    ELSE LET out == Calculate(due_type, q, st)
         IN  IF out.raised
             THEN [res EXCEPT !.warnings = Append(@, WarnFailed(due_type, out.exc)),
                              !.dues = EmptyDues, !.dues_order = <<>>]
             ELSE PutDue(res, due_type, out.dr)

\* one iteration of `for due_type in query.requested_due_types`
EngineLoopBody(res, due_type, q, st) ==
    IF due_type \notin DueTypes
    THEN [res EXCEPT !.warnings = Append(@, WarnNoCalculator(due_type))]
    ELSE LET out == Calculate(due_type, q, st)
         IN  IF out.raised
             THEN [res EXCEPT !.warnings = Append(@, WarnFailed(due_type, out.exc))]
             ELSE PutDue(res, due_type, out.dr)

RECURSIVE SumNet(_, _)
SumNet(res, order) ==
    IF order = <<>> THEN 0 ELSE res.dues[Head(order)].net_amount + SumNet(res, Tail(order))
RECURSIVE SumVat(_, _)
SumVat(res, order) ==
    IF order = <<>> THEN 0 ELSE res.dues[Head(order)].vat_amount + SumVat(res, Tail(order))
RECURSIVE SumTotal(_, _)
SumTotal(res, order) ==
    IF order = <<>> THEN 0 ELSE res.dues[Head(order)].total_with_vat + SumTotal(res, Tail(order))

\* [dt for dt, dr in result.dues.items() if <exempted is want>]
DuesWhereExempted(res, want) ==
    SelectSeqIdx(res.dues_order,
                 {i \in DOMAIN res.dues_order : res.dues[res.dues_order[i]].exempted = want})

\* an aggregation that totals every entry of dues and takes the VAT total from net
Aggregate_VatFromNet(res) ==
    [res EXCEPT
        !.grand_total_excl_vat = SumNet(res, res.dues_order),
        !.grand_total_vat      = SumNet(res, res.dues_order),
        !.grand_total_incl_vat = SumTotal(res, res.dues_order),
        !.calculation_metadata =
            [vat_rate        |-> get_vat_rate,
             calculators_run |-> res.dues_order,
             exempted        |-> DuesWhereExempted(res, TRUE)]]

\* the aggregation after the loop
Aggregate(res) ==
    LET non_exempt == DuesWhereExempted(res, FALSE)
    IN  [res EXCEPT
            !.grand_total_excl_vat = SumNet(res, non_exempt),
            !.grand_total_vat      = SumVat(res, non_exempt),
            !.grand_total_incl_vat = SumTotal(res, non_exempt),
            !.calculation_metadata =
                [vat_rate        |-> get_vat_rate,
                 calculators_run |-> res.dues_order,
                 exempted        |-> DuesWhereExempted(res, TRUE)]]

RECURSIVE EngineLoop(_, _, _, _)
EngineLoop(res, requested, q, st) ==
    IF requested = <<>> THEN res
    ELSE EngineLoop(EngineLoopBody(res, Head(requested), q, st), Tail(requested), q, st)

\* an engine that keeps appending to the CalculationResult of its previous call
EngineCalculate_ReusesResult(q, st) ==
    Aggregate(EngineLoop(result, q.requested_due_types, q, st))

\* CalculationEngine.calculate
EngineCalculate(q, st) ==
    Aggregate(EngineLoop(NewResult(q), q.requested_due_types, q, st))

-----------------------------------------------------------------------------
(* guardrails/guardrail_layer.py: the input gate *)

\* _VALID_PORTS
_VALID_PORTS == RecognisedPorts

GTUnusuallyLarge == 6000000

Issue(what) == [issue |-> what, valid_ports |-> {}]
IssueUnknownPort == [issue |-> "not a recognised TNPA port", valid_ports |-> _VALID_PORTS]

\* a validator that does not look at loa_meters
InputValidator_validate_IgnoresLoa(q) ==
    LET bad == \/ q.gross_tonnage <= 0
               \/ q.port = ""
               \/ Lower(q.port) \notin _VALID_PORTS
               \/ q.days_in_port < 0
    IN  [passed |-> ~bad,
         confidence_score |-> IF bad THEN 0 ELSE 100,
         issues |-> IF bad THEN <<Issue("invalid input")>> ELSE <<>>,
         warnings |-> IF q.gross_tonnage > GTUnusuallyLarge
                      THEN <<"GT is unusually large">> ELSE <<>>]

\* InputValidator.validate
InputValidator_validate(q) ==
    LET gtIssue == IF q.gross_tonnage <= 0
                   THEN <<Issue("gross_tonnage must be > 0")>> ELSE <<>>
        gtWarn == IF q.gross_tonnage > 0 /\ q.gross_tonnage > GTUnusuallyLarge
                  THEN <<"GT is unusually large">> ELSE <<>>
        portIssue == IF q.port = "" \/ q.port = None
                     THEN <<Issue("port is required")>>
                     ELSE IF Lower(q.port) \notin _VALID_PORTS
                     THEN <<IssueUnknownPort>> ELSE <<>>
        daysIssue == IF q.days_in_port < 0
                     THEN <<Issue("days_in_port cannot be negative")>> ELSE <<>>
        loaIssue == IF q.loa_meters < 0
                    THEN <<Issue("loa_meters cannot be negative")>> ELSE <<>>
        issues == gtIssue \o portIssue \o daysIssue \o loaIssue
        score == 100 - (IF gtIssue # <<>> THEN 50 ELSE 0)
                     - (IF gtWarn # <<>> THEN 10 ELSE 0)
                     - (IF portIssue = <<>> THEN 0
                        ELSE IF portIssue[1] = IssueUnknownPort THEN 50 ELSE 30)
                     - (IF daysIssue # <<>> THEN 20 ELSE 0)
    IN  [passed |-> Len(issues) = 0,
         confidence_score |-> Max(0, score),
         issues |-> issues,
         warnings |-> gtWarn]

\* GuardrailLayer.validate_input
validate_input(q) == InputValidator_validate(q)

NoReport == [passed |-> FALSE, confidence_score |-> 0, issues |-> <<>>, warnings |-> <<"not run">>]

-----------------------------------------------------------------------------
(* guardrails/guardrail_layer.py: the checks on a finished CalculationResult *)
(* Scores are in hundredths, the combined confidence in thousandths.         *)

\* _SANITY: (min, max) of a plausible net amount, in cents
_SANITY(due_type) ==
    CASE due_type = "light_dues"         -> <<100000, 50000000>>
      [] due_type = "vts_dues"           -> <<23500, 30000000>>
      [] due_type = "port_dues"          -> <<500000, 200000000>>
      [] due_type = "towage_dues"        -> <<500000, 150000000>>
      [] due_type = "pilotage_dues"      -> <<300000, 80000000>>
      [] due_type = "running_lines_dues" -> <<50000, 8000000>>

PenaltyBelowMin == 15
PenaltyAboveMax == 10
LowConfidence == 50

Msg(text, due_type) == [msg |-> text, due_type |-> due_type]

\* the branch of detect's range test a DueResult takes
RangeVerdict(due_type, dr) ==
    IF dr.exempted THEN "skipped"
    ELSE IF dr.net_amount < _SANITY(due_type)[1] THEN "below expected min"
    ELSE IF dr.net_amount > _SANITY(due_type)[2] THEN "exceeds expected max"
    ELSE "in range"

\* the due types detect appends a flag for, in the order of result.dues
Flagged(res) ==
    SelectSeqIdx(res.dues_order,
        {i \in DOMAIN res.dues_order :
            RangeVerdict(res.dues_order[i], res.dues[res.dues_order[i]])
                \in {"below expected min", "exceeds expected max"}})

\* HallucinationDetector.detect
HallucinationDetector_detect(res) ==
    LET flagged == Flagged(res)
        verdict(i) == RangeVerdict(flagged[i], res.dues[flagged[i]])
        below == {i \in DOMAIN flagged : verdict(i) = "below expected min"}
        above == {i \in DOMAIN flagged : verdict(i) = "exceeds expected max"}
        low   == SelectSeqIdx(res.dues_order,
                    {i \in DOMAIN res.dues_order :
                        /\ ~res.dues[res.dues_order[i]].exempted
                        /\ res.dues[res.dues_order[i]].confidence < LowConfidence})
    IN  [passed              |-> flagged = <<>>,
         confidence_score    |-> Max(0, 100 - PenaltyBelowMin * Cardinality(below)
                                            - PenaltyAboveMax * Cardinality(above)),
         hallucination_flags |-> [i \in DOMAIN flagged |-> Msg(verdict(i), flagged[i])],
         issues              |-> <<>>,
         warnings            |-> [i \in DOMAIN low |-> Msg("low extraction confidence", low[i])]]

RECURSIVE SumConfidence(_, _)
SumConfidence(res, order) ==
    IF order = <<>> THEN 0 ELSE res.dues[Head(order)].confidence + SumConfidence(res, Tail(order))

\* ConfidenceScorer.score, in thousandths
ConfidenceScorer_score(q, res) ==
    LET base == 100 - (IF q.arrival_time = None THEN 5 ELSE 0)
                    - (IF q.departure_time = None THEN 5 ELSE 0)
                    - (IF q.gross_tonnage = 0 THEN 50 ELSE 0)
        n    == Len(res.dues_order)
        sum  == SumConfidence(res, res.dues_order)
        combined == IF n = 0 THEN RoundDiv(10 * (base + 100), 2)
                    ELSE RoundDiv(10 * (base * n + sum), 2 * n)
    IN  Max(0, IF combined > 1000 THEN 1000 ELSE combined)

\* BusinessRulesEnforcer.VTS_MINIMUM and the R15M ceiling of OutputValidator, in cents
VTS_MINIMUM == 23552
GrandTotalCeiling == 1500000000

\* BusinessRulesEnforcer.COMPULSORY_PILOTAGE_PORTS
COMPULSORY_PILOTAGE_PORTS == RecognisedPorts

Abs(x) == IF x < 0 THEN -x ELSE x

\* an enforcer that takes an exempt pilotage entry for a missing one
BusinessRulesEnforcer_enforce_ExemptIsMissing(q, res) ==
    LET vat_off == SelectSeqIdx(res.dues_order,
                    {i \in DOMAIN res.dues_order :
                        LET dr == res.dues[res.dues_order[i]]
                        IN  /\ dr.net_amount > 0
                            /\ Abs(dr.vat_amount - MulRound(dr.net_amount, VatRatePct, 100)) > 100})
        vat_viols == [i \in DOMAIN vat_off |-> Msg("VAT should be 15%", vat_off[i])]
        vts_viols == IF /\ "vts_dues" \in DOMAIN res.dues
                        /\ ~res.dues["vts_dues"].exempted
                        /\ res.dues["vts_dues"].net_amount * 100 < VTS_MINIMUM * 90
                     THEN <<Msg("VTS net amount is below mandatory minimum", "vts_dues")>>
                     ELSE <<>>
        pil_viols == IF /\ Lower(q.port) \in COMPULSORY_PILOTAGE_PORTS
                        /\ \/ "pilotage_dues" \notin DOMAIN res.dues
                           \/ res.dues["pilotage_dues"].exempted
                     THEN <<Msg("Pilotage is compulsory but no pilotage dues were calculated",
                                "pilotage_dues")>>
                     ELSE <<>>
    IN  vat_viols \o vts_viols \o pil_viols

\* BusinessRulesEnforcer.enforce
BusinessRulesEnforcer_enforce(q, res) ==
    LET vat_off == SelectSeqIdx(res.dues_order,
                    {i \in DOMAIN res.dues_order :
                        LET dr == res.dues[res.dues_order[i]]
                        IN  /\ dr.net_amount > 0
                            /\ Abs(dr.vat_amount - MulRound(dr.net_amount, VatRatePct, 100)) > 100})
        vat_viols == [i \in DOMAIN vat_off |-> Msg("VAT should be 15%", vat_off[i])]
        vts_viols == IF /\ "vts_dues" \in DOMAIN res.dues
                        /\ ~res.dues["vts_dues"].exempted
                        /\ res.dues["vts_dues"].net_amount * 100 < VTS_MINIMUM * 90
                     THEN <<Msg("VTS net amount is below mandatory minimum", "vts_dues")>>
                     ELSE <<>>
        pil_viols == IF /\ Lower(q.port) \in COMPULSORY_PILOTAGE_PORTS
                        /\ "pilotage_dues" \notin DOMAIN res.dues
                     THEN <<Msg("Pilotage is compulsory but no pilotage dues were calculated",
                                "pilotage_dues")>>
                     ELSE <<>>
    IN  vat_viols \o vts_viols \o pil_viols

\* OutputValidator.validate
OutputValidator_validate(res) ==
    LET issues ==
            (IF res.grand_total_incl_vat < 0
             THEN <<Msg("Grand total cannot be negative", "")>> ELSE <<>>)
         \o (IF DOMAIN res.dues = {}
             THEN <<Msg("No dues were calculated", "")>> ELSE <<>>)
         \o (IF res.grand_total_incl_vat > GrandTotalCeiling
             THEN <<Msg("Grand total exceeds R15M", "")>> ELSE <<>>)
    IN  [passed              |-> issues = <<>>,
         confidence_score    |-> IF issues = <<>> THEN 100 ELSE 50,
         hallucination_flags |-> <<>>,
         issues              |-> issues,
         warnings            |-> <<>>]

\* an orchestrator that leaves the business rules out of its verdict
validate_output_IgnoresBusiness(q, res) ==
    LET hall_report   == HallucinationDetector_detect(res)
        output_report == OutputValidator_validate(res)
    IN  [passed               |-> hall_report.passed /\ output_report.passed,
         confidence_score     |-> ConfidenceScorer_score(q, res),
         warnings             |-> hall_report.warnings \o hall_report.hallucination_flags
                                    \o output_report.issues,
         hallucination_report |-> [flagged |-> hall_report.hallucination_flags],
         business_violations  |-> BusinessRulesEnforcer_enforce(q, res)]

\* GuardrailLayer.validate_output
validate_output(q, res) ==
    LET hall_report    == HallucinationDetector_detect(res)
        business_viols == BusinessRulesEnforcer_enforce(q, res)
        output_report  == OutputValidator_validate(res)
        confidence     == ConfidenceScorer_score(q, res)
        all_warnings   == hall_report.warnings \o hall_report.hallucination_flags
                            \o output_report.issues
        passed         == /\ hall_report.passed
                          /\ output_report.passed
                          /\ Len(business_viols) = 0
    IN  [passed               |-> passed,
         confidence_score     |-> confidence,
         warnings             |-> all_warnings,
         hallucination_report |-> [flagged |-> hall_report.hallucination_flags],
         business_violations  |-> business_viols]

\* no output check has run
NoGuardrail ==
    [passed |-> FALSE, confidence_score |-> 0, warnings |-> <<Msg("not run", "")>>,
     hallucination_report |-> [flagged |-> <<>>], business_violations |-> <<>>]

-----------------------------------------------------------------------------
(* query_processor/parser.py: building the VesselQuery *)

PORT_ALIASES(key) ==
    CASE key \in {"durban", "dbn"} -> "Durban"
      [] key \in {"richards bay", "richardsbay", "rbay"} -> "Richards Bay"
      [] key \in {"east london", "eastlondon", "el"} -> "East London"
      [] key \in {"ngqura", "coega"} -> "Ngqura"
      [] key \in {"port elizabeth", "portelizabeth", "pe", "gqeberha"} -> "Port Elizabeth"
      [] key \in {"mossel bay", "mosselbay"} -> "Mossel Bay"
      [] key \in {"cape town", "capetown", "cpt"} -> "Cape Town"
      [] key \in {"saldanha", "saldanha bay"} -> "Saldanha"

\* the keys of PORT_ALIASES, in dict order
AliasKeys ==
    <<"durban", "dbn", "richards bay", "richardsbay", "rbay", "east london",
      "eastlondon", "el", "ngqura", "coega", "port elizabeth", "portelizabeth",
      "pe", "gqeberha", "mossel bay", "mosselbay", "cape town", "capetown",
      "cpt", "saldanha", "saldanha bay">>

\* str.title() on the port spellings of the model
Title(s) ==
    CASE s = "walvis bay" -> "Walvis Bay"
      [] s = "DURBAN"     -> "Durban"
      [] OTHER -> s

\* QueryProcessor._normalise_port
_normalise_port(raw) ==
    IF raw = "" THEN ""
    ELSE LET key == Lower(raw)
             hit == FirstKey(AliasKeys, key)
         IN  IF \E i \in DOMAIN AliasKeys : AliasKeys[i] = key THEN PORT_ALIASES(key)
             ELSE IF ~IsNone(hit) THEN PORT_ALIASES(Val(hit))
             ELSE Title(raw)

\* VesselQuery's default requested_due_types
AllSixDues ==
    <<"light_dues", "port_dues", "towage_dues",
      "vts_dues", "pilotage_dues", "running_lines_dues">>

\* VesselQuery() with the dataclass defaults
DefaultQuery ==
    [vessel_name |-> "", vessel_type |-> "general", vessel_flag |-> "",
     gross_tonnage |-> 0, loa_meters |-> 0, port |-> "", days_in_port |-> 0,
     activity |-> "", cargo_type |-> None, cargo_quantity_mt |-> NoNum,
     num_tug_operations |-> 2, outside_working_hours |-> FALSE,
     is_coaster |-> FALSE, is_double_hull_tanker |-> FALSE,
     arrival_time |-> None, departure_time |-> None,
     requested_due_types |-> AllSixDues]

\* main.py SUDESTADA_PROFILE through QueryProcessor.from_vessel_profile
from_vessel_profile(port) ==
    [DefaultQuery EXCEPT
        !.vessel_name = "SUDESTADA", !.vessel_type = "Bulk Carrier",
        !.vessel_flag = "MLT - Malta", !.gross_tonnage = 513000,
        !.loa_meters = 229, !.port = _normalise_port(port),
        !.days_in_port = 339, !.activity = "Exporting Iron Ore",
        !.arrival_time = "2024-11-15T10:12:00",
        !.departure_time = "2024-11-22T13:00:00",
        !.cargo_quantity_mt = Some(40000), !.num_tug_operations = 2]

-----------------------------------------------------------------------------
(* Contents of the SQLite tables used as inputs *)

Rate(due_type, port, unit, rate) == [due_type |-> due_type, port |-> port, unit |-> unit, rate |-> rate]
Tier(due_type, port, lo, hi, fee, rate) == [due_type |-> due_type, port |-> port, gt_min |-> lo, gt_max |-> hi, base_fee |-> fee, rate_per_unit |-> rate]
Pctg(due_type, name, pct) == [due_type |-> due_type, name |-> name, pct |-> pct]
Minimum(due_type, port, amount) == [due_type |-> due_type, port |-> port, amount |-> amount]

\* a freshly created database
EmptyStore ==
    [rates |-> <<>>, tiers |-> <<>>, surcharges |-> <<>>,
     reductions |-> <<>>, minimums |-> <<>>]

\* an extraction whose towage tiers stop at 4,000 GT and leave a gap above 2,000 GT
StoreA ==
    [rates |-> <<Rate("light_dues", "ALL", "per_100gt", 12000),
                 Rate("vts_dues", "Durban", "per_gt", 70),
                 Rate("port_dues", "ALL", "per_100gt", 20000),
                 Rate("port_dues", "Durban", "per_100gt_per_day", 6000)>>,
     tiers |-> <<Tier("towage_dues", "ALL", 20010, Some(40000), 1300000, 2500),
                 Tier("towage_dues", "ALL", 0, Some(20000), 900000, 0),
                 Tier("pilotage_dues", "durban", 0, NoNum, 1900000, 1000)>>,
     surcharges |-> <<Pctg("towage_dues", "Outside working hours", 30)>>,
     reductions |-> <<Pctg("port_dues", "Coaster reduction", 150),
                      Pctg("port_dues", "Short stay", 0)>>,
     minimums |-> <<Minimum("vts_dues", "ALL", 30000),
                    Minimum("light_dues", "Durban", 5000000)>>]

\* another extraction: no minimums, rates per GT, surcharges and reductions for ALL
StoreB ==
    [rates |-> <<Rate("light_dues", "Durban", "per_gt", 120),
                 Rate("vts_dues", "ALL", "per_gt", 0)>>,
     tiers |-> <<Tier("running_lines_dues", "Durban", 0, NoNum, 250000, 1200),
                 Tier("running_lines_dues", "ALL", 0, NoNum, 300000, 1400)>>,
     surcharges |-> <<Pctg("ALL", "Outside working hours", 40)>>,
     reductions |-> <<Pctg("ALL", "Double hull tanker", 20),
                      Pctg("port_dues", "Coaster reduction", 40)>>,
     minimums |-> <<>>]

-----------------------------------------------------------------------------
(* The requests of the model *)

\* sequences over S of length at most n
BoundedSeq(S, n) == UNION {[1..k -> S] : k \in 0..n}

\* "cargo_dues" has no calculator in _CALCULATOR_MAP
RequestedNames ==
    {"light_dues", "port_dues", "pilotage_dues", "running_lines_dues", "cargo_dues"}

RequestedLists == BoundedSeq(RequestedNames, MaxReq) \cup {AllSixDues}

\* queries as POST /calculate builds them (structured, natural-language or mixed input);
\* from_vessel_profile reads the name and the type with dict.get from model_dump(),
\* which holds None for an omitted vessel_metadata.name and for a null technical_specs.type
ApiQueryProduct ==
    {[DefaultQuery EXCEPT
        !.vessel_name = n, !.vessel_type = t, !.vessel_flag = "MLT - Malta",
        !.gross_tonnage = g, !.loa_meters = l, !.port = p, !.days_in_port = d,
        !.activity = "Exporting Iron Ore", !.requested_due_types = r] :
      n \in {"SUDESTADA", "SAPS VESSEL", None}, t \in {"Bulk Carrier", "Pleasure", None},
      g \in {0, 1000, 513000, 2720000}, l \in {-1, 229}, p \in {"Durban", "Walvis Bay", ""},
      d \in {-100, 100}, r \in RequestedLists}

\* a vessel of 272,000 GT asks for the per-service dues only: its light and port
\* dues are beyond the model's integers
ApiQueries ==
    {q \in ApiQueryProduct :
        q.gross_tonnage = 2720000 =>
            Range(q.requested_due_types)
                \subseteq {"pilotage_dues", "running_lines_dues", "cargo_dues"}}

\* the --port argument of `python main.py demo`
DemoPorts == {"Durban", "dbn", "Cape Town", "Walvis Bay", ""}

\* direct callers of CalculationEngine.calculate, one due type at a time
EngineQueryProduct ==
    {[DefaultQuery EXCEPT
        !.vessel_name = nf[1], !.vessel_flag = nf[2], !.vessel_type = t,
        !.gross_tonnage = g, !.loa_meters = 229, !.port = p, !.days_in_port = d,
        !.activity = a, !.num_tug_operations = o, !.outside_working_hours = w,
        !.is_coaster = c, !.is_double_hull_tanker = h,
        !.requested_due_types = <<dt>>] :
      nf \in {<<"SUDESTADA", "MLT - Malta">>, <<"SAPS VESSEL", "MLT - Malta">>,
              <<"SUDESTADA", "SA Navy">>},
      t \in {"Bulk Carrier", "Pleasure", None},
      g \in {0, 1000, 20005, 50000}, p \in {"Durban", "Mossel Bay", "Walvis Bay"},
      d \in {0, 100, 3100}, a \in {"", "Exporting Iron Ore"}, o \in 0..MaxOps,
      w \in BOOLEAN, c \in BOOLEAN, h \in BOOLEAN, dt \in DueTypes}

\* 2,000.5 GT lies between two hardcoded towage tiers, which selects the last
\* tier; only Mossel Bay's keeps the amount within the model's integers.
\* VesselQuery's default tonnage of 0 is taken with one vessel at one port.
QueriesWithoutCargo ==
    {q \in EngineQueryProduct :
        /\ q.gross_tonnage = 20005 => q.port = "Mossel Bay"
        /\ q.gross_tonnage = 0 =>
              /\ q.port = "Durban" /\ q.vessel_type = "Bulk Carrier"
              /\ q.vessel_name = "SUDESTADA" /\ q.vessel_flag = "MLT - Malta"
              /\ q.num_tug_operations = MaxOps}

\* a recorded cargo is taken with port dues of one tonnage at one port
QueriesWithCargo ==
    {[q EXCEPT !.cargo_type = "Dry Bulk", !.cargo_quantity_mt = Some(40000)] :
        q \in {x \in QueriesWithoutCargo :
                  /\ x.requested_due_types = <<"port_dues">>
                  /\ x.gross_tonnage = 50000 /\ x.port = "Durban"}}

EngineQueries == QueriesWithoutCargo \cup QueriesWithCargo

NoFindTierCall == [gt |-> 0, tiers |-> <<>>, called |-> FALSE, out |-> <<>>]

\* what every request starts from, whoever the caller is
Idle ==
    /\ pc = "built"
    /\ input_report = NoReport
    /\ result = NewResult(DefaultQuery)
    /\ idx = 0
    /\ ingest_pc = "idle"
    /\ force_reingest = FALSE
    /\ incoming = EmptyStore
    /\ seen = {}
    /\ gr = NoGuardrail
    /\ ft = NoFindTierCall

Init ==
    /\ Idle
    /\ store \in {EmptyStore, StoreA}
    /\ \/ entry = "api" /\ query \in ApiQueries
       \/ entry = "demo" /\ query \in {from_vessel_profile(p) : p \in DemoPorts}

\* routes.py calculate_dues: the input guardrail, HTTP 422 when it does not pass
ValidateInput ==
    /\ entry = "api"
    /\ pc = "built"
    /\ input_report' = validate_input(query)
    /\ pc' = IF input_report'.passed THEN "validated" ELSE "rejected"
    /\ UNCHANGED <<entry, query, store, result, idx, ingest_pc, force_reingest,
                   incoming, seen, ft, gr>>

\* routes.py calculate_dues: result = _engine.calculate(query)
ApiCalculate ==
    /\ entry = "api"
    /\ pc = "validated"
    /\ result' = EngineCalculate(query, store)
    /\ pc' = "calculated"
    /\ UNCHANGED <<entry, query, store, input_report, idx, ingest_pc,
                   force_reingest, incoming, seen, ft, gr>>

\* main.py run_demo: result = engine.calculate(query), right after the query is built
DemoCalculate ==
    /\ entry = "demo"
    /\ pc = "built"
    /\ result' = EngineCalculate(query, store)
    /\ pc' = "calculated"
    /\ UNCHANGED <<entry, query, store, input_report, idx, ingest_pc,
                   force_reingest, incoming, seen, ft, gr>>

\* routes.py calculate_dues: gr = _guardrail.validate_output(query, result)
ApiValidateOutput ==
    /\ entry = "api"
    /\ pc = "calculated"
    /\ gr' = validate_output(query, result)
    /\ pc' = "checked"
    /\ UNCHANGED <<entry, query, store, input_report, result, idx, ingest_pc,
                   force_reingest, incoming, seen, ft>>

\* main.py run_demo: gr = guardrail.validate_output(query, result)
DemoValidateOutput ==
    /\ entry = "demo"
    /\ pc = "calculated"
    /\ gr' = validate_output(query, result)
    /\ pc' = "checked"
    /\ UNCHANGED <<entry, query, store, input_report, result, idx, ingest_pc,
                   force_reingest, incoming, seen, ft>>

\* api/models.py CalculationResponse: the fields declared str accept no None
ResponseModelAccepts(res) == res.vessel_name # None /\ res.port # None

\* routes.py calculate_dues: the response is built from result and gr and returned;
\* an exception while building it is turned into HTTP 500 by the handler's
\* except clause.  (The optional explanation has its own try/except and
\* changes nothing recorded here.)
ApiRespond ==
    /\ entry = "api"
    /\ pc = "checked"
    /\ pc' = IF ResponseModelAccepts(result) THEN "responded" ELSE "error_500"
    /\ UNCHANGED <<entry, query, store, input_report, result, idx, ingest_pc,
                   force_reingest, incoming, seen, ft, gr>>

\* main.py run_demo: the table and the guardrail status are printed
DemoPrint ==
    /\ entry = "demo"
    /\ pc = "checked"
    /\ pc' = "printed"
    /\ UNCHANGED <<entry, query, store, input_report, result, idx, ingest_pc,
                   force_reingest, incoming, seen, ft, gr>>

Next ==
    \/ ValidateInput
    \/ ApiCalculate
    \/ DemoCalculate
    \/ ApiValidateOutput
    \/ DemoValidateOutput
    \/ ApiRespond
    \/ DemoPrint

Spec == Init /\ [][Next]_vars

-----------------------------------------------------------------------------
(* The calculators under every combination of query flags and store contents *)

InitCalc ==
    /\ Idle
    /\ entry = "engine"
    /\ store \in {EmptyStore, StoreA, StoreB}
    /\ query \in EngineQueries

\* engine.calculate(query) called directly, as the engine's tests do
EngineCall ==
    /\ entry = "engine"
    /\ pc = "built"
    /\ result' = EngineCalculate(query, store)
    /\ pc' = "calculated"
    /\ UNCHANGED <<entry, query, store, input_report, idx, ingest_pc,
                   force_reingest, incoming, seen, ft, gr>>

SpecCalc == InitCalc /\ [][EngineCall]_vars

-----------------------------------------------------------------------------
(* Every recognised port, all six dues in one call, and the same call again *)

PortNames ==
    {"Durban", "Cape Town", "Richards Bay", "Port Elizabeth",
     "Ngqura", "East London", "Saldanha", "Mossel Bay"}

\* 0.1 GT is the smallest positive tonnage the model's tenths can hold
PortQueryProduct ==
    {[DefaultQuery EXCEPT
        !.vessel_name = n, !.vessel_flag = "MLT - Malta", !.vessel_type = t,
        !.gross_tonnage = g, !.loa_meters = 229, !.port = p, !.days_in_port = d,
        !.activity = "Exporting Iron Ore", !.num_tug_operations = o,
        !.requested_due_types = r] :
      n \in {"SUDESTADA", "SAPS VESSEL"}, t \in {"Bulk Carrier", "Pleasure", None},
      g \in {1, 1000, 20005, 50000, 513000}, p \in PortNames, d \in {100, 339},
      o \in 1..MaxOps, r \in {AllSixDues, <<"vts_dues", "cargo_dues">>}}

\* 2,000.5 GT (between two hardcoded towage tiers) at Mossel Bay only, as in EngineQueries
PortQueries ==
    {q \in PortQueryProduct : q.gross_tonnage = 20005 => q.port = "Mossel Bay"}

InitPorts ==
    /\ Idle
    /\ entry = "engine"
    /\ store \in {EmptyStore, StoreA}
    /\ query \in PortQueries

\* a second engine.calculate(query) with the same query object and the same store
EngineCallAgain ==
    /\ entry = "engine"
    /\ pc = "calculated"
    /\ result' = EngineCalculate(query, store)
    /\ pc' = "calculated_twice"
    /\ UNCHANGED <<entry, query, store, input_report, idx, ingest_pc,
                   force_reingest, incoming, seen, ft, gr>>

NextPorts == EngineCall \/ EngineCallAgain

SpecPorts == InitPorts /\ [][NextPorts]_vars

-----------------------------------------------------------------------------
(* The input validator on its own, over the edges of every field *)

ValidatorQueries ==
    {[DefaultQuery EXCEPT
        !.gross_tonnage = g, !.port = p, !.days_in_port = d, !.loa_meters = l] :
      g \in {-10, 0, 1, 513000, 6000000, 6000001},
      p \in {"", "Durban", "DURBAN", "durban", "Cape Town", "Richards Bay",
             "Port Elizabeth", "Ngqura", "East London", "Saldanha", "Mossel Bay",
             "Walvis Bay", "dbn"},
      d \in {-1, 0, 100}, l \in {-1, 0, 229}}

InitValidate ==
    /\ Idle
    /\ entry = "api"
    /\ store = EmptyStore
    /\ query \in ValidatorQueries

SpecValidate == InitValidate /\ [][ValidateInput]_vars

-----------------------------------------------------------------------------
(* TowageDuesCalculator._find_tier called on arbitrary tier lists *)

TierMins == {0, 20, 40}
TierMaxes == {NoNum, Some(10), Some(30), Some(50)}
TierFees == {100, 200}

TierUniverse ==
    {[tier_min |-> lo, tier_max |-> hi, base_fee |-> fee, rate_per_unit |-> 0] :
        lo \in TierMins, hi \in TierMaxes, fee \in TierFees}

TierGTs == {0, 5, 10, 25, 45, 60}

InitTier ==
    /\ pc = "built"
    /\ entry = "find_tier"
    /\ query = DefaultQuery
    /\ store = EmptyStore
    /\ input_report = NoReport
    /\ result = NewResult(DefaultQuery)
    /\ idx = 0
    /\ ingest_pc = "idle"
    /\ force_reingest = FALSE
    /\ incoming = EmptyStore
    /\ seen = {}
    /\ gr = NoGuardrail
    /\ ft \in {[gt |-> g, tiers |-> ts, called |-> FALSE, out |-> <<>>] :
                  g \in TierGTs, ts \in BoundedSeq(TierUniverse, MaxTiers)}

FindTier ==
    /\ entry = "find_tier"
    /\ ~ft.called
    /\ ft' = [ft EXCEPT !.called = TRUE, !.out = _find_tier(ft.gt, ft.tiers)]
    /\ UNCHANGED <<entry, query, store, pc, input_report, result, idx,
                   ingest_pc, force_reingest, incoming, seen, gr>>

SpecTier == InitTier /\ [][FindTier]_vars

-----------------------------------------------------------------------------
(* POST /ingest in the thread pool while POST /calculate is served *)

\* IngestionPipeline._safe_insert with SQLiteStore.insert_*: nothing for no rows
_safe_insert(table, rows) == IF rows = <<>> THEN table ELSE table \o rows

\* SQLiteStore.clear_all: one transaction deleting the five tables
clear_all(st) == EmptyStore

\* whether calculator.calculate(query) gets as far as reading the store
ReadsStore(due_type, q) ==
    /\ due_type \in DueTypes
    /\ \/ due_type = "running_lines_dues"
       \/ ~_is_exempt(q, due_type).raised /\ ~_is_exempt(q, due_type).exempt

IngestQueries ==
    {[DefaultQuery EXCEPT
        !.vessel_name = "SUDESTADA", !.vessel_type = "Bulk Carrier",
        !.gross_tonnage = 1000, !.loa_meters = 229, !.port = "Durban",
        !.days_in_port = 100, !.requested_due_types = r] :
      r \in {<<"light_dues", "towage_dues">>, <<"cargo_dues", "port_dues">>, AllSixDues}}

InitIngest ==
    /\ pc = "built"
    /\ entry = "api"
    /\ query \in IngestQueries
    /\ store \in {EmptyStore, StoreA}
    /\ input_report = NoReport
    /\ result = NewResult(DefaultQuery)
    /\ idx = 0
    /\ ingest_pc = "idle"
    /\ force_reingest \in BOOLEAN
    /\ incoming \in {StoreA, StoreB}
    /\ seen = {}
    /\ gr = NoGuardrail
    /\ ft = NoFindTierCall

\* engine.calculate: the CalculationResult is created
CalcBegin ==
    /\ entry = "api"
    /\ pc = "validated"
    /\ result' = NewResult(query)
    /\ idx' = 1
    /\ pc' = "calculating"
    /\ UNCHANGED <<entry, query, store, input_report, ingest_pc, force_reingest,
                   incoming, seen, ft, gr>>

\* engine.calculate: one due type; its calculator reads the store as it is now
CalcStep ==
    /\ pc = "calculating"
    /\ idx <= Len(query.requested_due_types)
    /\ LET due_type == query.requested_due_types[idx]
       IN  /\ result' = EngineLoopBody(result, due_type, query, store)
           /\ seen' = IF ReadsStore(due_type, query)
                      THEN seen \cup {[due_type |-> due_type, phase |-> ingest_pc,
                                       store |-> store]}
                      ELSE seen
    /\ idx' = idx + 1
    /\ UNCHANGED <<entry, query, store, pc, input_report, ingest_pc,
                   force_reingest, incoming, ft, gr>>

\* engine.calculate: the aggregation after the loop
CalcEnd ==
    /\ pc = "calculating"
    /\ idx > Len(query.requested_due_types)
    /\ result' = Aggregate(result)
    /\ pc' = "calculated"
    /\ UNCHANGED <<entry, query, store, input_report, idx, ingest_pc,
                   force_reingest, incoming, seen, ft, gr>>

\* IngestionPipeline.run: skip a populated store unless forced
IngestCheck ==
    /\ ingest_pc = "idle"
    /\ ingest_pc' = IF ~force_reingest /\ count(store) > 0 THEN "skipped"
                    ELSE IF force_reingest THEN "clear_all"
                    ELSE "insert_rates"
    /\ UNCHANGED <<entry, query, store, pc, input_report, result, idx,
                   force_reingest, incoming, seen, ft, gr>>

IngestClearAll ==
    /\ ingest_pc = "clear_all"
    /\ store' = clear_all(store)
    /\ ingest_pc' = "insert_rates"
    /\ UNCHANGED <<entry, query, pc, input_report, result, idx,
                   force_reingest, incoming, seen, ft, gr>>

InsertRates ==
    /\ ingest_pc = "insert_rates"
    /\ store' = [store EXCEPT !.rates = _safe_insert(@, incoming.rates)]
    /\ ingest_pc' = "insert_tiers"
    /\ UNCHANGED <<entry, query, pc, input_report, result, idx,
                   force_reingest, incoming, seen, ft, gr>>

InsertTiers ==
    /\ ingest_pc = "insert_tiers"
    /\ store' = [store EXCEPT !.tiers = _safe_insert(@, incoming.tiers)]
    /\ ingest_pc' = "insert_surcharges"
    /\ UNCHANGED <<entry, query, pc, input_report, result, idx,
                   force_reingest, incoming, seen, ft, gr>>

InsertSurcharges ==
    /\ ingest_pc = "insert_surcharges"
    /\ store' = [store EXCEPT !.surcharges = _safe_insert(@, incoming.surcharges)]
    /\ ingest_pc' = "insert_reductions"
    /\ UNCHANGED <<entry, query, pc, input_report, result, idx,
                   force_reingest, incoming, seen, ft, gr>>

InsertReductions ==
    /\ ingest_pc = "insert_reductions"
    /\ store' = [store EXCEPT !.reductions = _safe_insert(@, incoming.reductions)]
    /\ ingest_pc' = "insert_minimums"
    /\ UNCHANGED <<entry, query, pc, input_report, result, idx,
                   force_reingest, incoming, seen, ft, gr>>

InsertMinimums ==
    /\ ingest_pc = "insert_minimums"
    /\ store' = [store EXCEPT !.minimums = _safe_insert(@, incoming.minimums)]
    /\ ingest_pc' = "done"
    /\ UNCHANGED <<entry, query, pc, input_report, result, idx,
                   force_reingest, incoming, seen, ft, gr>>

NextIngest ==
    \/ ValidateInput \/ CalcBegin \/ CalcStep \/ CalcEnd
    \/ IngestCheck \/ IngestClearAll \/ InsertRates \/ InsertTiers
    \/ InsertSurcharges \/ InsertReductions \/ InsertMinimums

SpecIngest == InitIngest /\ [][NextIngest]_vars

-----------------------------------------------------------------------------
(* Properties *)

Occurrences(s, x) == Cardinality({i \in DOMAIN s : s[i] = x})

\* how many warnings of the result name the due type
WarningsNaming(res, due_type) ==
    Cardinality({i \in DOMAIN res.warnings : res.warnings[i].due_type = due_type})

\* the due type has no calculator, or its calculator raises on this query
CalculatorFails(due_type) ==
    due_type \notin DueTypes \/ Calculate(due_type, query, store).raised

\* C1: calculate never fails the whole request because of one due type. A
\* requested due type with no registered calculator, or whose calculator
\* raises, adds one warning naming it (per request of it) and is absent from
\* dues; every other requested due type is computed and present in dues.
C1_EngineIsolatesFailures ==
    pc = "calculated" =>
        \A i \in DOMAIN query.requested_due_types :
            LET due_type == query.requested_due_types[i]
            IN  IF CalculatorFails(due_type)
                THEN /\ due_type \notin DOMAIN result.dues
                     /\ WarningsNaming(result, due_type)
                            = Occurrences(query.requested_due_types, due_type)
                ELSE /\ due_type \in DOMAIN result.dues
                     /\ result.dues[due_type] = Calculate(due_type, query, store).dr
                     /\ WarningsNaming(result, due_type) = 0

\* a request where one calculator raised and another due type was still computed
C1_Witness ==
    /\ pc = "calculated"
    /\ \E i, j \in DOMAIN query.requested_due_types :
          /\ query.requested_due_types[i] \in DueTypes
          /\ CalculatorFails(query.requested_due_types[i])
          /\ query.requested_due_types[j] \in DOMAIN result.dues
          /\ result.dues[query.requested_due_types[j]].net_amount > 0

\* C2: for a query whose port is not recognised the validator reports a
\* blocking issue naming the valid ports, validate_input always runs before
\* calculate, and calculate is never invoked for a query whose input report
\* has passed = false.
C2_CalculateOnlyAfterPassedValidation ==
    /\ pc \in {"validated", "rejected"} /\ query.port # ""
          /\ Lower(query.port) \notin RecognisedPorts
       => /\ ~input_report.passed
          /\ \E i \in DOMAIN input_report.issues :
                input_report.issues[i].valid_ports = RecognisedPorts
    /\ pc = "calculated" =>
          /\ input_report = validate_input(query)
          /\ input_report.passed

\* what the input contract calls invalid
InputIsInvalid(q) ==
    \/ q.gross_tonnage <= 0
    \/ q.port = ""
    \/ Lower(q.port) \notin RecognisedPorts
    \/ q.days_in_port < 0
    \/ q.loa_meters < 0

\* C3: InputValidator.validate returns passed = false exactly when GT <= 0,
\* the port is empty, the port is (case-insensitively) none of the eight
\* recognised ports, days_in_port < 0 or loa_meters < 0; a GT above 600,000
\* alone gives a warning only and leaves passed = true.
C3_ValidatorPassedExactly ==
    pc \in {"validated", "rejected"} =>
        /\ input_report.passed = ~InputIsInvalid(query)
        /\ query.gross_tonnage > 6000000 /\ ~InputIsInvalid(query)
              => /\ input_report.passed
                 /\ input_report.issues = <<>>
                 /\ input_report.warnings # <<>>

\* a GT above 600,000 on an otherwise valid query passed with a warning
C3_Witness ==
    /\ pc = "validated"
    /\ query.gross_tonnage > 6000000
    /\ input_report.passed
    /\ Len(input_report.warnings) = 1

NonExemptDues(res) == {d \in DOMAIN res.dues : ~res.dues[d].exempted}
ExemptDues(res) == {d \in DOMAIN res.dues : res.dues[d].exempted}

RECURSIVE SumField(_, _, _)
\* the sum of one DueResult field over the due types in S
SumField(res, S, f) ==
    IF S = {} THEN 0
    ELSE LET d == CHOOSE d \in S : TRUE
         IN  res.dues[d][f] + SumField(res, S \ {d}, f)

\* C4: after calculate the three grand totals are the sums of net_amount,
\* vat_amount and total_with_vat over exactly the non-exempt entries of dues;
\* exempted dues still appear in dues and in metadata 'exempted' and
\* contribute 0 to every grand total.
C4_GrandTotalsOverNonExempt ==
    pc = "calculated" =>
        /\ result.grand_total_excl_vat
              = SumField(result, NonExemptDues(result), "net_amount")
        /\ result.grand_total_vat
              = SumField(result, NonExemptDues(result), "vat_amount")
        /\ result.grand_total_incl_vat
              = SumField(result, NonExemptDues(result), "total_with_vat")
        /\ Range(result.calculation_metadata.exempted) = ExemptDues(result)
        /\ \A d \in ExemptDues(result) :
              /\ d \in Range(query.requested_due_types)
              /\ result.dues[d].net_amount = 0
              /\ result.dues[d].vat_amount = 0
              /\ result.dues[d].total_with_vat = 0

\* a result holding an exempt due next to a charged one
C4_Witness ==
    /\ pc = "calculated"
    /\ ExemptDues(result) # {}
    /\ \E d \in NonExemptDues(result) : result.dues[d].vat_amount > 0
    /\ result.grand_total_vat > 0


\* the store is as it was before the ingestion wrote anything
Untouched(phase) ==
    \/ phase \in {"idle", "skipped", "clear_all"}
    \/ phase = "insert_rates" /\ ~force_reingest

\* C5: while a forced re-ingestion runs concurrently with calculate, every
\* store read made during the calculate() call sees either the complete
\* pre-ingestion contents or the complete post-ingestion contents, never a
\* half-updated store.
C5_NoHalfUpdatedStoreObserved ==
    \A r \in seen : Untouched(r.phase) \/ r.store = incoming

\* C6: an exempt DueResult has base, surcharge, reduction, net, VAT and total
\* all 0, exempted = true and a non-empty reason, whatever the query's GT,
\* days, operations and flags and whatever the store contains.
C6_ExemptResultIsAllZero ==
    pc = "calculated" =>
        \A d \in ExemptDues(result) :
            /\ result.dues[d].base_amount = 0
            /\ result.dues[d].surcharge_amount = 0
            /\ result.dues[d].reduction_amount = 0
            /\ result.dues[d].net_amount = 0
            /\ result.dues[d].vat_amount = 0
            /\ result.dues[d].total_with_vat = 0
            /\ result.dues[d].exemption_reason # ""

\* an exempt towage result for a coaster outside working hours, with store
\* tiers and an overridden surcharge at hand
C6_Witness ==
    /\ pc = "calculated"
    /\ "towage_dues" \in ExemptDues(result)
    /\ store = StoreA
    /\ query.outside_working_hours /\ query.is_coaster
    /\ query.gross_tonnage = 50000 /\ query.num_tug_operations = MaxOps

\* C7: for every non-exempt DueResult, vat_amount is round(net_amount *
\* vat_rate, 2) within 0.02 and total_with_vat is round(net_amount +
\* vat_amount, 2), net_amount and vat_amount being the rounded fields.
C7_VatAndTotalFromRoundedFields ==
    pc = "calculated" =>
        \A d \in NonExemptDues(result) :
            LET dr == result.dues[d]
                vat == RoundDiv(dr.net_amount * get_vat_rate, 100)
            IN  /\ dr.vat_amount - vat <= 2 /\ vat - dr.vat_amount <= 2
                /\ dr.total_with_vat = dr.net_amount + dr.vat_amount

\* C8: every DueResult has net_amount = max(0, base + surcharge - reduction),
\* hence net_amount >= 0, vat_amount >= 0 and total_with_vat >= net_amount,
\* also when the reductions exceed base plus surcharges.
C8_NetIsClampedAtZero ==
    pc = "calculated" =>
        \A d \in DOMAIN result.dues :
            LET dr == result.dues[d]
                a == ArgsOf(d, query, store)
            IN  /\ dr.net_amount >= 0
                /\ dr.vat_amount >= 0
                /\ dr.total_with_vat >= dr.net_amount
                /\ IF dr.exempted THEN dr.net_amount = 0
                   ELSE dr.net_amount
                            = Round2(IF a.base + a.surcharges - a.reductions > 0
                                     THEN a.base + a.surcharges - a.reductions ELSE 0)

\* port dues whose store-overridden reductions exceed base plus surcharges
C8_Witness ==
    /\ pc = "calculated"
    /\ "port_dues" \in NonExemptDues(result)
    /\ LET a == PortArgs(query, store)
       IN  a.reductions > a.base + a.surcharges /\ a.base > 0
    /\ result.dues["port_dues"].net_amount = 0

\* gt_min <= GT and (gt_max unbounded or GT <= gt_max)
Covers(t, gt) == t.tier_min <= gt /\ (t.tier_max = NoNum \/ gt <= t.tier_max[1])

\* C9: for any GT >= 0 and any non-empty tier list, _find_tier returns a
\* member of the list, never None; when some tier contains GT, the returned
\* tier is the one with the smallest gt_min among those.
C9_FindTierIsTotal ==
    ft.called /\ ft.tiers # <<>> =>
        /\ ft.out # <<>>
        /\ ft.out[1] \in Range(ft.tiers)
        /\ LET C == {t \in Range(ft.tiers) : Covers(t, ft.gt)}
           IN  C # {} => /\ ft.out[1] \in C
                         /\ \A t \in C : ft.out[1].tier_min <= t.tier_min

\* two tiers contain GT and the list gives the higher gt_min first
C9_Witness ==
    /\ ft.called
    /\ Len(ft.tiers) = 2
    /\ Covers(ft.tiers[1], ft.gt) /\ Covers(ft.tiers[2], ft.gt)
    /\ ft.tiers[1].tier_min > ft.tiers[2].tier_min
    /\ ft.out = <<ft.tiers[2]>>

\* C10: when no tier of the non-empty tier list contains the vessel's GT, the
\* towage result comes from the last tier with confidence 0.3 and a warning;
\* a result from a tier that does not contain GT never has confidence 1.0
\* with no warnings.
C10_FallbackTierIsDegraded ==
    pc = "calculated" /\ "towage_dues" \in NonExemptDues(result) =>
        LET tiers == Towage_get_tiers(store, Lower(query.port)).tiers
            dr == result.dues["towage_dues"]
        IN  (tiers # <<>> /\ \A i \in DOMAIN tiers : ~Covers(tiers[i], query.gross_tonnage))
                => /\ dr.confidence = ConfDegraded
                   /\ dr.warnings # <<>>


-----------------------------------------------------------------------------
(* C11: calculate is idempotent.  Calling calculate a second time with the *)
(* same query and an unchanged store returns a result identical to the     *)
(* first one (same dues, same grand totals, same warnings), and the query  *)
(* is not modified by either call.                                         *)

-----------------------------------------------------------------------------
(* C12: the dict validate_output returns has passed = TRUE exactly when    *)
(* the hallucination detector reported no flag, the output validator       *)
(* reported no issue and the business-rules enforcer returned no           *)
(* violation; its business_violations is exactly the enforcer's list and   *)
(* its warnings contain every hallucination flag and every output issue.   *)

C12_OutputVerdictComposesTheThree ==
    pc = "checked" =>
        LET flags  == HallucinationDetector_detect(result).hallucination_flags
            issues == OutputValidator_validate(result).issues
            viols  == BusinessRulesEnforcer_enforce(query, result)
        IN  /\ gr.passed <=> (flags = <<>> /\ issues = <<>> /\ viols = <<>>)
            /\ gr.business_violations = viols
            /\ Range(flags) \cup Range(issues) \subseteq Range(gr.warnings)
            /\ gr.hallucination_report.flagged = flags

\* in-range dues and an accepted total, and only the missing pilotage fails the report
C12_Witness ==
    /\ pc = "checked"
    /\ ~gr.passed
    /\ gr.warnings = <<>>
    /\ Len(gr.business_violations) = 1
    /\ DOMAIN result.dues # {}


-----------------------------------------------------------------------------
(* C13: post-compute advisory failures never block the result.  Whenever  *)
(* input validation passed, the request flow goes on to return the         *)
(* CalculationResult together with its validation report, also when that   *)
(* report has passed = FALSE; only blocking input errors lead to no        *)
(* numeric answer.                                                         *)

\* the handler of the request has returned or raised
Ended == pc \in {"rejected", "responded", "error_500", "printed"}

\* a request that passed the input gate and has ended, ended with the result and its report
C13_PassedInputEndsWithAnswer ==
    (entry = "api" /\ input_report.passed /\ Ended) =>
        /\ pc = "responded"
        /\ gr = validate_output(query, result)


-----------------------------------------------------------------------------
(* C14: with an empty store every calculator still answers.  For every     *)
(* recognised port and every GT > 0, each of the six calculators returns a *)
(* DueResult without raising, every result's rate_source is 'hardcoded',   *)
(* and net_amount > 0 for a vessel that is not exempt.                     *)

\* the call C14 speaks about: a typed query for a recognised port, GT > 0, empty store
EmptyStoreCall ==
    /\ pc \in {"calculated", "calculated_twice"}
    /\ store = EmptyStore
    /\ Lower(query.port) \in RecognisedPorts
    /\ query.gross_tonnage > 0
    /\ query.vessel_type # None

C14_EmptyStoreFallsBackToHardcoded ==
    EmptyStoreCall =>
        \A dt \in Range(query.requested_due_types) \cap DueTypes :
            /\ dt \in DOMAIN result.dues
            /\ WarningsNaming(result, dt) = 0
            /\ result.dues[dt].rate_source = "hardcoded"
            /\ ~result.dues[dt].exempted => result.dues[dt].net_amount > 0

\* all six dues priced from the hardcoded tables for the smallest tonnage
C14_Witness ==
    /\ EmptyStoreCall
    /\ query.gross_tonnage = 1
    /\ DOMAIN result.dues = DueTypes
    /\ \A dt \in DueTypes : ~result.dues[dt].exempted /\ result.dues[dt].net_amount > 0


-----------------------------------------------------------------------------
(* C15: with the VAT rate at 0.15, every result's grand_total_incl_vat     *)
(* equals round(grand_total_excl_vat * 1.15, 2), for any query and any     *)
(* subset of requested due types.                                          *)

C15_GrandTotalIsExclTimesVat ==
    pc = "calculated" =>
        result.grand_total_incl_vat
            = MulRound(result.grand_total_excl_vat, 100 + get_vat_rate, 100)


-----------------------------------------------------------------------------
(* C16: the coaster flag lowers port dues.  For any non-exempt query,      *)
(* setting is_coaster = true strictly decreases port_dues.net_amount       *)
(* relative to the otherwise-identical query with is_coaster = false, and  *)
(* the coaster result has reduction_amount > 0.                            *)

\* port dues were calculated for a coaster that is not exempt
CoasterPortDues ==
    /\ pc = "calculated"
    /\ query.is_coaster
    /\ "port_dues" \in NonExemptDues(result)

\* the same query without the flag, against the same store
WithoutCoaster == PortDuesCalculator([query EXCEPT !.is_coaster = FALSE], store).dr

-----------------------------------------------------------------------------
(* C17: the towage per-service charge.  For the tier selected for the      *)
(* vessel's GT, per_service = base_fee + ceil((GT - tier_min) / 100) x     *)
(* rate_per_unit with tier_min the selected tier's lower bound, and the    *)
(* base is per_service x operations (Durban, GT 51,300, tier 50,001 to     *)
(* 100,000: 73,118.07 + 13 x 32.24, x 2 operations = 147,074.38).          *)

\* towage was charged to a vessel that is not exempt
TowageCharged ==
    /\ pc \in {"calculated", "calculated_twice"}
    /\ "towage_dues" \in NonExemptDues(result)

\* the tier the calculator prices from
SelectedTier ==
    _find_tier(query.gross_tonnage, Towage_get_tiers(store, Lower(query.port)).tiers)[1]

-----------------------------------------------------------------------------
(* C18: VTS dues of a non-exempt vessel.  base = max(GT x rate_per_GT,     *)
(* minimum), with the hardcoded rate 0.65 at Durban, Richards Bay and      *)
(* Saldanha and 0.54 at every other port, and the minimum 235.52 unless    *)
(* the store defines one; hence net_amount is never below the resolved     *)
(* minimum and equals it whenever GT x rate is smaller.                    *)

\* VTS was charged to a vessel that is not exempt
VtsCharged ==
    /\ pc \in {"calculated", "calculated_twice"}
    /\ "vts_dues" \in NonExemptDues(result)

\* the rate per GT in cents: the store's if it has one, else the hardcoded rate of the port
ResolvedVtsRate ==
    LET srate == get_rate(store, "vts_dues", query.port, "per_gt")
    IN  IF Truthy(srate) THEN Val(srate)
        ELSE IF Lower(query.port) \in {"durban", "richards bay", "saldanha"} THEN 65
        ELSE 54

\* the minimum in cents: the store's if it defines one, else 235.52
ResolvedVtsMinimum ==
    LET smin == get_minimum(store, "vts_dues", query.port)
    IN  IF Truthy(smin) THEN Val(smin) ELSE 23552

C18_VtsIsRateTimesGTOrMinimum ==
    VtsCharged =>
        LET vts == result.dues["vts_dues"]
            raw == query.gross_tonnage * ResolvedVtsRate * 10
        IN  /\ vts.base_amount = Round2(Max(raw, ResolvedVtsMinimum * 100))
            /\ vts.net_amount = vts.base_amount
            /\ vts.net_amount >= ResolvedVtsMinimum
            /\ raw < ResolvedVtsMinimum * 100 => vts.net_amount = ResolvedVtsMinimum

\* a small vessel at a standard-rate port pays the store's minimum
C18_Witness ==
    /\ VtsCharged
    /\ store = StoreA
    /\ query.port = "Cape Town"
    /\ query.gross_tonnage * ResolvedVtsRate * 10 < ResolvedVtsMinimum * 100
    /\ ResolvedVtsMinimum # 23552
    /\ result.dues["vts_dues"].net_amount = ResolvedVtsMinimum


-----------------------------------------------------------------------------
(* C19: the outside-working-hours surcharge.  When outside_working_hours   *)
(* is set, the towage, pilotage and running-lines results have             *)
(* surcharge_amount = pct% of the operations-multiplied base (pct from the *)
(* store, default 25% for towage and 50% for pilotage and running lines),  *)
(* so surcharge_amount > 0 and net_amount is strictly greater than for the *)
(* otherwise-identical query without the flag; when the flag is unset      *)
(* surcharge_amount = 0.                                                   *)

OwhDueTypes == {"towage_dues", "pilotage_dues", "running_lines_dues"}

\* the store's first surcharge row for the due type that names working hours, else the default
ClaimedOwhPct(due_type) ==
    LET rows == get_surcharges(store, due_type)
        named == {i \in DOMAIN rows :
                    \/ In("working", LowerOrEmpty(rows[i].name))
                    \/ due_type = "towage_dues" /\ In("owh", LowerOrEmpty(rows[i].name))}
        first == CHOOSE i \in named : \A j \in named : i <= j
    IN  IF named # {} /\ rows[first].pct # 0 THEN rows[first].pct
        ELSE IF due_type = "towage_dues" THEN 25 ELSE 50

\* the same query without the flag, against the same store
WithoutOwh(due_type) ==
    Calculate(due_type, [query EXCEPT !.outside_working_hours = FALSE], store).dr

C19_OwhSurchargeIsPctOfBase ==
    pc = "calculated" =>
        \A dt \in OwhDueTypes \cap NonExemptDues(result) :
            LET dr == result.dues[dt]
            IN  IF query.outside_working_hours
                THEN /\ dr.surcharge_amount
                            = Round2(Pct(dr.base_amount * 100, ClaimedOwhPct(dt)))
                     /\ dr.surcharge_amount > 0
                     /\ dr.net_amount > WithoutOwh(dt).net_amount
                     /\ dr.base_amount = WithoutOwh(dt).base_amount
                ELSE dr.surcharge_amount = 0

\* towage outside working hours under a store percentage that is not the default
C19_Witness ==
    /\ pc = "calculated"
    /\ query.outside_working_hours
    /\ "towage_dues" \in NonExemptDues(result)
    /\ ClaimedOwhPct("towage_dues") = 30
    /\ result.dues["towage_dues"].surcharge_amount > 0
    /\ result.dues["towage_dues"].net_amount > WithoutOwh("towage_dues").net_amount


-----------------------------------------------------------------------------
(* C20: in HallucinationDetector.detect each non-exempt due whose          *)
(* net_amount lies outside its plausible range [min, max] produces one     *)
(* flag and a confidence penalty, and the penalty for exceeding the max is *)
(* larger than the penalty for being below the min; exempt dues produce no *)
(* flag and no penalty.                                                    *)

\* the result as it would be had due type d not been calculated
WithoutDue(res, d) ==
    [res EXCEPT !.dues = [x \in DOMAIN res.dues \ {d} |-> res.dues[x]],
                !.dues_order = SelectSeqIdx(res.dues_order,
                                   {i \in DOMAIN res.dues_order : res.dues_order[i] # d})]

\* what due type d takes off the detector's score
PenaltyOf(res, d) ==
    HallucinationDetector_detect(WithoutDue(res, d)).confidence_score
        - HallucinationDetector_detect(res).confidence_score

FlagsNaming(res, d) ==
    LET flags == HallucinationDetector_detect(res).hallucination_flags
    IN  Cardinality({i \in DOMAIN flags : flags[i].due_type = d})

C20_ExceedingMaxCostsMoreThanBelowMin ==
    pc = "checked" =>
        \A d \in DOMAIN result.dues :
            LET dr == result.dues[d]
                lo == _SANITY(d)[1]
                hi == _SANITY(d)[2]
            IN  /\ (dr.exempted \/ (lo <= dr.net_amount /\ dr.net_amount <= hi)) =>
                        FlagsNaming(result, d) = 0 /\ PenaltyOf(result, d) = 0
                /\ (~dr.exempted /\ dr.net_amount < lo) =>
                        FlagsNaming(result, d) = 1 /\ PenaltyOf(result, d) = PenaltyBelowMin
                /\ (~dr.exempted /\ dr.net_amount > hi) =>
                        FlagsNaming(result, d) = 1 /\ PenaltyOf(result, d) > PenaltyBelowMin


-----------------------------------------------------------------------------
(* C21: order of the breakdown lines *)

SurchargeItems == {"surcharge_idle", "surcharge_owh"}
ReductionItems == {"reduction_coaster", "reduction_short_stay", "reduction_double_hull"}

\* the place of a line in the order of computation: the basic fee, the
\* incremental or tier part, the operations multiplier, surcharges, reductions
LineRank(item) ==
    CASE item \in {"basic", "tier_base", "light", "vts", "vts_minimum"} -> 1
      [] item \in {"incremental", "tier_incremental", "per_100gt"} -> 2
      [] item = "operations" -> 3
      [] item \in SurchargeItems -> 4
      [] item \in ReductionItems -> 5

ReductionBeforeSurcharge(bd) ==
    \E i, j \in DOMAIN bd :
        i < j /\ bd[i].item \in ReductionItems /\ bd[j].item \in SurchargeItems

\* C21: in every DueResult the breakdown lines appear in computation order
\* (basic, incremental or tier, operations, surcharges, reductions), so no
\* reduction line precedes a surcharge line of the same breakdown.
C21_BreakdownInComputationOrder ==
    pc = "calculated" =>
        \A d \in DOMAIN result.dues :
            LET bd == result.dues[d].breakdown
            IN  /\ \A i, j \in DOMAIN bd :
                       i < j => LineRank(bd[i].item) <= LineRank(bd[j].item)
                /\ ~ReductionBeforeSurcharge(bd)


-----------------------------------------------------------------------------
(* C22: which stored tier the tier-based calculators compute from *)

TierDueTypes == {"towage_dues", "pilotage_dues", "running_lines_dues"}

\* the tiers the store holds for a due type under one port name
PortTiers(st, due_type, port) ==
    {st.tiers[i] : i \in {k \in DOMAIN st.tiers :
                            /\ st.tiers[k].due_type = due_type
                            /\ st.tiers[k].port = port}}

BothPortAndAllTiers(d) ==
    /\ pc = "calculated"
    /\ d \in DOMAIN result.dues
    /\ ~result.dues[d].exempted
    /\ PortTiers(store, d, query.port) # {}
    /\ PortTiers(store, d, "ALL") # {}

\* C22: when the store holds tiers under the query's port name and 'ALL' tiers
\* for the same due type, towage, pilotage and running lines compute from a
\* tier of the port: the first breakdown line is the base fee of such a tier.
C22_ExactPortTierWins ==
    \A d \in TierDueTypes :
        BothPortAndAllTiers(d) =>
            \E t \in PortTiers(store, d, query.port) :
                result.dues[d].breakdown[1].amount = t.base_fee * 100


-----------------------------------------------------------------------------
(* C23: the idle-vessel surcharge of port dues *)

PortDuesCharged ==
    /\ pc = "calculated"
    /\ "port_dues" \in DOMAIN result.dues
    /\ ~result.dues["port_dues"].exempted

\* the query records neither an activity nor a cargo
NoActivityNorCargo(q) ==
    /\ q.activity = ""
    /\ q.cargo_type = None
    /\ IsNone(q.cargo_quantity_mt)

\* C23: the idle-vessel surcharge of port dues is 20% of the incremental
\* component exactly when days_in_port > 30 and the query records neither an
\* activity nor a cargo; with an activity or a cargo recorded, or with 30 days
\* or fewer, the surcharge is 0.
C23_IdleSurchargeOnlyWithoutActivityOrCargo ==
    PortDuesCharged =>
        LET dr == result.dues["port_dues"]
            incr == dr.breakdown[2].amount
        IN  dr.surcharge_amount =
                IF query.days_in_port > 3000 /\ NoActivityNorCargo(query)
                THEN Round2(Pct(incr, IdleSurchargePct)) ELSE 0


-----------------------------------------------------------------------------
(* C24: the hardcoded towage tiers cover every tonnage *)

\* towage was charged from the hardcoded table of the query's port
TowageFromHardcodedTable ==
    /\ pc \in {"calculated", "calculated_twice"}
    /\ "towage_dues" \in DOMAIN result.dues
    /\ ~result.dues["towage_dues"].exempted
    /\ Towage_get_tiers(store, Lower(query.port)).source = "hardcoded"

\* C24: with the hardcoded towage table every gross tonnage of 0 or more,
\* whole or fractional, lies in exactly one tier of the port's table, so the
\* degraded last-tier fallback is never taken.
C24_HardcodedTiersCoverEveryGT ==
    TowageFromHardcodedTable =>
        LET tiers == Towage_get_tiers(store, Lower(query.port)).tiers
            hits == {i \in DOMAIN tiers : TierContains(tiers[i], query.gross_tonnage)}
        IN  Cardinality(hits) = 1


-----------------------------------------------------------------------------
(* C25: which dues an exempt vessel is exempted from *)

KeywordExemptDues ==
    {"light_dues", "vts_dues", "port_dues", "towage_dues", "pilotage_dues"}
PleasureExemptDues == {"light_dues", "port_dues"}

IsPleasure(q) == q.vessel_type # None /\ Lower(q.vessel_type) = "pleasure"

\* the due types the vessel of the query is exempt from
ExemptFrom(q) ==
    IF HasExemptKeyword(q) THEN KeywordExemptDues
    ELSE IF IsPleasure(q) THEN PleasureExemptDues
    ELSE {}

-----------------------------------------------------------------------------
(* C26: the operations multiplier *)

PerServiceDueTypes == {"pilotage_dues", "running_lines_dues"}

Charged(d) ==
    /\ pc = "calculated"
    /\ d \in DOMAIN result.dues
    /\ ~result.dues[d].exempted

\* basic fee + ceil(GT / 100) x rate per 100 GT, from the two breakdown lines
PerServiceOf(dr) == (dr.breakdown[1].amount + dr.breakdown[2].amount) \div 100

\* the same call for another number of operations
WithOperations(d, n) ==
    Calculate(d, [query EXCEPT !.num_tug_operations = n], store).dr

\* PilotageDuesCalculator._get_rate or RunningLinesDuesCalculator._get_rate
ResolvedRate(d) ==
    IF d = "pilotage_dues" THEN Pilotage_get_rate(store, Lower(query.port)).rate
    ELSE RunningLines_get_rate(store, Lower(query.port)).rate

\* pilotage and running lines: base = per_service x max(num_operations, 2),
\* per_service = basic fee + ceil(GT / 100) x rate per 100 GT, and 0, 1 and 2
\* operations give the same base
PerServiceBaseAtLeastTwoOps ==
    \A d \in PerServiceDueTypes :
        Charged(d) =>
            LET dr == result.dues[d]
                per_service == ResolvedRate(d).basic
                    + CeilDiv(query.gross_tonnage, 1000) * ResolvedRate(d).per_100gt
            IN  /\ PerServiceOf(dr) = per_service
                /\ dr.base_amount = per_service * Max(query.num_tug_operations, 2)
                /\ query.num_tug_operations \in 0..2 =>
                       /\ dr.base_amount = WithOperations(d, 0).base_amount
                       /\ dr.base_amount = WithOperations(d, 1).base_amount
                       /\ dr.base_amount = WithOperations(d, 2).base_amount

TwoTowageOperations == Charged("towage_dues") /\ query.num_tug_operations = 2

\* C26 as stated: the towage base is per_service x max(num_operations, 1), so
\* the towage net for two operations is twice the net for one; the pilotage
\* and running-lines base is per_service x max(num_operations, 2) with
\* per_service = basic fee + ceil(GT / 100) x rate per 100 GT, so that 0, 1 and
\* 2 operations give the same base.
C26_OperationsMultiplier_ExactNet ==
    /\ TwoTowageOperations =>
           result.dues["towage_dues"].net_amount
               = 2 * WithOperations("towage_dues", 1).net_amount
    /\ PerServiceBaseAtLeastTwoOps

\* C26, amended: as above, but it is the towage base that doubles exactly;
\* the rounded net for two operations is within one cent of twice the net
\* for one, and equal to it when no surcharge applies.
C26_OperationsMultiplier ==
    /\ TwoTowageOperations =>
           LET two == result.dues["towage_dues"]
               one == WithOperations("towage_dues", 1)
           IN  /\ two.base_amount = 2 * one.base_amount
               /\ Abs(two.net_amount - 2 * one.net_amount) <= 1
               /\ ~query.outside_working_hours =>
                      two.net_amount = 2 * one.net_amount
    /\ PerServiceBaseAtLeastTwoOps

\* two operations outside working hours whose rounded net is a cent more than
\* twice the net of one operation
C26_Witness ==
    /\ TwoTowageOperations
    /\ query.outside_working_hours
    /\ result.dues["towage_dues"].base_amount
           = 2 * WithOperations("towage_dues", 1).base_amount
    /\ result.dues["towage_dues"].net_amount
           = 2 * WithOperations("towage_dues", 1).net_amount + 1

-----------------------------------------------------------------------------
(* GuardrailLayer.validate_output applied to results of long stays of large *)
(* vessels, whose unrounded amounts exceed the integers of the calculators *)
(* above: the DueResults are given by their rounded fields, in cents.      *)

\* a DueResult of a charged due: net = base, VAT 15% of net
ChargedDue(due_type, net) ==
    [_exempt_result(due_type, "") EXCEPT
        !.base_amount = net, !.net_amount = net,
        !.vat_amount = MulRound(net, VatRatePct, 100),
        !.total_with_vat = net + MulRound(net, VatRatePct, 100),
        !.formula_applied = "charged", !.exempted = FALSE]

RECURSIVE PutDues(_, _)
\* result.dues[dr.due_type] = dr for every DueResult of the sequence
PutDues(res, drs) ==
    IF drs = <<>> THEN res
    ELSE PutDues(PutDue(res, Head(drs).due_type, Head(drs)), Tail(drs))

\* net port dues: three amounts below the R15M ceiling, and the R14,255,060
\* of a 200,000 GT vessel after 120 days at the hardcoded rates
LargePortNets == {1282460, 41160000, 119445460, 1425506000}

LargeQueries ==
    {[DefaultQuery EXCEPT
        !.vessel_name = "SUDESTADA", !.vessel_type = "Bulk Carrier",
        !.gross_tonnage = 2000000, !.loa_meters = 300, !.port = p,
        !.days_in_port = 12000, !.activity = "Exporting Iron Ore"] :
      p \in {"Durban", "Saldanha", "Walvis Bay"}}

LargeDues ==
    {<<ChargedDue("port_dues", n)>> \o pil \o tow :
        n \in LargePortNets,
        pil \in {<<>>, <<ChargedDue("pilotage_dues", 7609722)>>,
                 <<_exempt_result("pilotage_dues", "Government/SAPS/SANDF vessel")>>},
        tow \in {<<>>, <<ChargedDue("towage_dues", 23700000)>>}}

InitOutput ==
    /\ pc = "built"
    /\ entry = "guardrail"
    /\ store = EmptyStore
    /\ query \in LargeQueries
    /\ \E drs \in LargeDues : result = Aggregate(PutDues(NewResult(query), drs))
    /\ input_report = NoReport
    /\ idx = 0 /\ ingest_pc = "idle" /\ force_reingest = FALSE
    /\ incoming = EmptyStore /\ seen = {}
    /\ ft = NoFindTierCall /\ gr = NoGuardrail

\* guardrail.validate_output(query, result)
ValidateOutput ==
    /\ entry = "guardrail"
    /\ pc = "built"
    /\ gr' = validate_output(query, result)
    /\ pc' = "checked"
    /\ UNCHANGED <<entry, query, store, input_report, result, idx, ingest_pc,
                   force_reingest, incoming, seen, ft>>

SpecOutput == InitOutput /\ [][ValidateOutput]_vars

-----------------------------------------------------------------------------
(* C27: the R15M ceiling of the Output Validator *)

CeilingIssue == Msg("Grand total exceeds R15M", "")

AboveCeiling == pc = "checked" /\ result.grand_total_incl_vat > GrandTotalCeiling

\* C27: a grand total incl. VAT above 15,000,000 makes the Output Validator
\* raise a 'please verify' issue that is surfaced in the warnings but is not
\* fatal: on its own it does not turn the validation outcome to failed.
C27_CeilingIssueIsNotFatal ==
    AboveCeiling =>
        LET out == OutputValidator_validate(result)
        IN  /\ CeilingIssue \in Range(gr.warnings)
            /\ out.issues = <<CeilingIssue>> => out.passed
            /\ gr.passed = (/\ HallucinationDetector_detect(result).passed
                            /\ gr.business_violations = <<>>)


-----------------------------------------------------------------------------
(* C28: rate_source names where the values of a due came from *)

\* a rate of the store was used
UsedStoreRate(d) ==
    CASE d = "light_dues" ->
           \/ Truthy(get_rate(store, d, query.port, "per_100gt"))
           \/ Truthy(get_rate(store, d, query.port, "per_gt"))
      [] d = "vts_dues" -> Truthy(get_rate(store, d, query.port, "per_gt"))
      [] d = "port_dues" -> Truthy(get_rate(store, d, query.port, "per_100gt"))
      [] OTHER -> FALSE

\* a tier of the store was used
UsedStoreTier(d) ==
    d \in TierDueTypes /\ get_tiers(store, d, Lower(query.port)) # <<>>

\* a minimum of the store set the base amount
UsedStoreMinimum(d) ==
    /\ d \in {"light_dues", "vts_dues"}
    /\ Truthy(get_minimum(store, d, query.port))
    /\ result.dues[d].base_amount = Val(get_minimum(store, d, query.port))
    /\ d = "vts_dues" => result.dues[d].breakdown[1].item = "vts_minimum"

\* C28: rate_source is 'sqlite' exactly when a rate, tier or minimum used for
\* the due came from the knowledge store, and 'hardcoded' exactly when all of
\* them came from the bundled tables.
C28_RateSourceNamesTheProvenance ==
    \A d \in DueTypes :
        Charged(d) =>
            LET from_store == UsedStoreRate(d) \/ UsedStoreTier(d) \/ UsedStoreMinimum(d)
            IN  /\ result.dues[d].rate_source = "sqlite" <=> from_store
                /\ result.dues[d].rate_source = "hardcoded" <=> ~from_store


-----------------------------------------------------------------------------
(* C29: the order in which the requested due types are dispatched *)

\* the orderings of the list s
Orderings(s) ==
    {t \in [DOMAIN s -> Range(s)] :
        \A x \in Range(s) :
            Cardinality({i \in DOMAIN s : t[i] = x})
                = Cardinality({i \in DOMAIN s : s[i] = x})}

\* engine.calculate for the same query and store, the due types in order t
Reordered(t) == EngineCalculate([query EXCEPT !.requested_due_types = t], store)

SameDuesAndTotals(a, b) ==
    /\ a.dues = b.dues
    /\ a.grand_total_excl_vat = b.grand_total_excl_vat
    /\ a.grand_total_vat = b.grand_total_vat
    /\ a.grand_total_incl_vat = b.grand_total_incl_vat

\* C29 as stated: any two orderings of the same requested due types over the
\* same query and store give the same CalculationResult: the same mapping from
\* due type to DueResult, the same grand totals and the same metadata.
C29_DispatchOrderIsIrrelevant_SameMetadata ==
    pc = "calculated" =>
        \A t \in Orderings(query.requested_due_types) :
            /\ SameDuesAndTotals(Reordered(t), result)
            /\ Reordered(t).calculation_metadata = result.calculation_metadata

\* C29, amended: the mapping and the grand totals are the same; the metadata
\* has the same vat_rate and lists the same due types under calculators_run
\* and exempted, in the order of the request.
C29_DispatchOrderIsIrrelevant ==
    pc = "calculated" =>
        \A t \in Orderings(query.requested_due_types) :
            LET m == Reordered(t).calculation_metadata
            IN  /\ SameDuesAndTotals(Reordered(t), result)
                /\ m.vat_rate = result.calculation_metadata.vat_rate
                /\ Range(m.calculators_run)
                       = Range(result.calculation_metadata.calculators_run)
                /\ Range(m.exempted) = Range(result.calculation_metadata.exempted)

\* two due types calculated in the order of the request; the other order
\* lists them the other way round
C29_Witness ==
    /\ pc = "calculated"
    /\ query.requested_due_types = <<"light_dues", "pilotage_dues">>
    /\ result.calculation_metadata.calculators_run = <<"light_dues", "pilotage_dues">>
    /\ Reordered(<<"pilotage_dues", "light_dues">>).calculation_metadata.calculators_run
           = <<"pilotage_dues", "light_dues">>
    /\ result.grand_total_incl_vat > 0


-----------------------------------------------------------------------------
(* C30: compulsory pilotage *)

PilotageViolation ==
    Msg("Pilotage is compulsory but no pilotage dues were calculated", "pilotage_dues")

PilotageMissingAtRecognisedPort ==
    /\ Lower(query.port) \in _VALID_PORTS
    /\ "pilotage_dues" \notin DOMAIN result.dues

\* C30: the enforcer reports a pilotage violation exactly when the query's
\* port is a recognised port and result.dues has no pilotage_dues entry,
\* whether it was not requested or its calculator failed; an exempt entry
\* counts as present; a violation makes validate_output return passed = false.
C30_PilotageViolationIffMissing ==
    pc = "checked" =>
        /\ PilotageViolation \in Range(gr.business_violations)
               <=> PilotageMissingAtRecognisedPort
        /\ PilotageViolation \in Range(gr.business_violations) => ~gr.passed

\* pilotage was requested and its calculator failed
C30_Witness ==
    /\ pc = "checked"
    /\ "pilotage_dues" \in Range(query.requested_due_types)
    /\ PilotageMissingAtRecognisedPort
    /\ PilotageViolation \in Range(gr.business_violations)
    /\ ~gr.passed

=============================================================================
